---- MODULE Spec2Model ----
(***************************************************************************)
(* Operation orchestration and git state reconciliation of phastos:        *)
(* OperationController.execute / executeSequence, the switch_changeset     *)
(* workflow, the GitService primitives they call, and the repository       *)
(* inspection that lists local changesets and unsynced remote branches.    *)
(*                                                                         *)
(* Branch names are sequences of path segments: origin/changeset/x is      *)
(* <<"origin", "changeset", "x">>.  A regular expression anchored at the   *)
(* start of the string, /^origin\//, matches exactly when the first        *)
(* segment is "origin" and another segment follows.                        *)
(***************************************************************************)
EXTENDS Integers, Sequences, FiniteSets, TLC

VARIABLES
    repo,             \* the git repository in project.workingDirectory
    ops,              \* executeSequence: the operations argument
    continueOnError,  \* executeSequence: the continueOnError argument
    results,          \* executeSequence: the results array
    producer,         \* history: the position in ops each result came from
    idx,              \* executeSequence: position of the for..of iterator
    pc,               \* where the caller is
    inflight,         \* indices of operations whose execute() has not returned
    cmds,             \* every external command issued so far, in order
    escaped,          \* an exception left execute()
    before,           \* the repository as it was when the last operation started
    lastOp,           \* the last operation handed to execute()
    info,             \* the last repository state produced by inspection
    calls,            \* number of execute() calls of the interactive session
    derived,          \* last local name derived for a remote branch
    selectedProject,  \* the project the operations run on
    resolved,         \* last answer of getMainBranch
    aggregate,        \* the aggregated result shown for a custom command
    running,          \* the git processes started and not yet exited
    pending,          \* per async call chain, the commands it has yet to run
    history,          \* the commit graph with the commits HEAD and main name
    answer,           \* what the last inspection query returned
    loggers           \* a Logger, its child and the arrays they refer to

\* the state of the concurrent session, of inspection queries and of logging
aux == <<running, pending, history, answer, loggers>>

vars == <<repo, ops, continueOnError, results, producer, idx, pc, inflight,
          cmds, escaped, before, lastOp, info, calls, derived,
          selectedProject, resolved, aggregate, running, pending, history,
          answer, loggers>>

----------------------------------------------------------------------------
\* Bounds of the model.

MaxOps == 3

MaxCalls == 2

MaxSegs == 4

MaxFresh == 2

MaxLogs == 3

MaxCommits == 4

----------------------------------------------------------------------------
\* Values.

NoBranch == <<>>

NoText == ""

Msg(text, arg) == [text |-> text, arg |-> arg]

NoOutput == Msg(NoText, NoBranch)

NoError == [kind |-> "none", detail |-> NoText]

Stderr(cmd) == [kind |-> "stderr", detail |-> cmd]

IsFalsy(m) == m.text = NoText

\* JavaScript's a || b on an optional string
OrElse(a, b) == IF IsFalsy(a) THEN b ELSE a

\* the value of an optional string that was left out
Undefined == "undefined"

Falsy(v) == v \in {Undefined, NoText}

\* JavaScript's a || b on optional strings
Or(a, b) == IF Falsy(a) THEN b ELSE a

main == <<"main">>

develop == <<"develop">>

master == <<"master">>

trunk == <<"trunk">>

release == <<"release">>

ChangesetA == <<"changeset", "a">>

OriginMain == <<"origin", "main">>

OriginChangesetB == <<"origin", "changeset", "b">>

OriginFeatureY == <<"origin", "feature", "y">>

OriginHead == <<"origin", "HEAD">>

OriginHotfix == <<"origin", "hotfix">>

----------------------------------------------------------------------------
\* The repository and the external git process.
\*   isRepo    the working directory is inside a git work tree
\*   local     local branches          remote   remote-tracking refs
\*   server    the branches the remote holds (what fetch --prune brings)
\*   upstream  the configured upstream of each local branch, or NoBranch
\*   current   the checked-out branch
\*   tree      what git status --porcelain reports: "modified" for changes to
\*             tracked files, "untracked" for files git does not track
\*   stashes   the stash list, oldest first

Cmd(cmd, arg, ok) == [cmd |-> cmd, arg |-> arg, ok |-> ok, threw |-> FALSE]

\* a call that ended by throwing instead of returning
CmdThrew(cmd, arg) == [cmd |-> cmd, arg |-> arg, ok |-> FALSE, threw |-> TRUE]

GitOk(output) == [success |-> TRUE, output |-> output, error |-> NoError]

GitFail(error) == [success |-> FALSE, output |-> NoOutput, error |-> error]

Ret(r, log, res) == [repo |-> r, log |-> log, res |-> res]

\* the commands whose exit status the environment decides
MutatingCmds == {"stash", "checkout", "checkout -b", "checkout --track"}

doesBranchExist(r, branchName) ==
    r.isRepo /\ (branchName \in r.local \/ branchName \in r.remote)

isGitRepository(r) == r.isRepo

\* git status --porcelain printed something
hasUncommittedChanges(r) == r.isRepo /\ r.tree # {}

getCurrentBranch(r) == IF r.isRepo THEN r.current ELSE NoBranch

\* the stash is recorded and the changes stay in the working tree
stashChanges_Applied(r, stashName, failing) ==
    LET success == r.isRepo /\ "stash" \notin failing
        r2 == IF success /\ "modified" \in r.tree
              THEN [r EXCEPT !.stashes = Append(@, stashName)]
              ELSE r
    IN  Ret(r2, <<Cmd("stash", stashName.branch, success)>>,
            IF success
            THEN GitOk(Msg("Changes stashed successfully", NoBranch))
            ELSE GitFail(Stderr("stash")))

\* git stash push -m <message>: saves the changes to tracked files and leaves
\* untracked files where they are; with nothing to save it prints "No local
\* changes to save", exits 0 and creates no stash
stashChanges(r, stashName, failing) ==
    LET success == r.isRepo /\ "stash" \notin failing
        r2 == IF success /\ "modified" \in r.tree
              THEN [r EXCEPT !.tree = @ \ {"modified"},
                             !.stashes = Append(@, stashName)]
              ELSE r
    IN  Ret(r2, <<Cmd("stash", stashName.branch, success)>>,
            IF success
            THEN GitOk(Msg("Changes stashed successfully", NoBranch))
            ELSE GitFail(Stderr("stash")))

WithBranch(r, b, up) ==
    [r EXCEPT !.local = @ \cup {b},
              !.upstream = [x \in r.local \cup {b} |->
                              IF x = b THEN up ELSE r.upstream[x]],
              !.current = b]

createBranch(r, branchName, failing) ==
    LET success == /\ r.isRepo
                   /\ branchName \notin r.local
                   /\ "checkout -b" \notin failing
    IN  Ret(IF success THEN WithBranch(r, branchName, NoBranch) ELSE r,
            <<Cmd("checkout -b", branchName, success)>>,
            IF success
            THEN GitOk(Msg("Branch created successfully", branchName))
            ELSE GitFail(Stderr("checkout -b")))

\* the stash message of a call that gives none
NoStashName == [prefix |-> NoText, branch |-> NoBranch]

\* `Phastos auto-stash ${new Date().toISOString()}`
DefaultStashName == [prefix |-> "Phastos auto-stash", branch |-> NoBranch]

\* the values Date.now() takes at successive calls, as branch names wip-<ms>
WipNames == <<"wip-t1", "wip-t2", "wip-t3", "wip-t4", "wip-t5">>

\* `wip-${Date.now()}`: the clock has moved on since the last wip- branch
WipBranch(r) ==
    <<WipNames[Cardinality({i \in 1..Len(WipNames) :
                               <<WipNames[i]>> \in r.local}) + 1]>>

saveChanges(r, preference, stashName, branchName, failing) ==
    IF preference = "stash"
    THEN stashChanges(r,
                      IF stashName = NoStashName
                      THEN DefaultStashName ELSE stashName,
                      failing)
    ELSE createBranch(r,
                      IF branchName = NoBranch THEN WipBranch(r)
                      ELSE branchName,
                      failing)

switchToBranch(r, branchName, failing) ==
    LET success == /\ r.isRepo
                   /\ branchName \in r.local
                   /\ "checkout" \notin failing
    IN  Ret(IF success THEN [r EXCEPT !.current = branchName] ELSE r,
            <<Cmd("checkout", branchName, success)>>,
            IF success
            THEN GitOk(Msg("Switched to branch: ", branchName))
            ELSE GitFail(Stderr("checkout")))

RECURSIVE FirstExisting(_, _)
FirstExisting(r, names) ==
    IF names = <<>> THEN NoBranch
    ELSE IF doesBranchExist(r, Head(names)) THEN Head(names)
         ELSE FirstExisting(r, Tail(names))

\* the candidates in the opposite order
possibleBranchNames_Reversed(configuredDefaultBranch) ==
    <<master, main, develop>>
    \o (IF configuredDefaultBranch # NoBranch
        THEN <<configuredDefaultBranch>> ELSE <<>>)

\* ['develop', 'main', 'master'], the configured default branch put in front
possibleBranchNames(configuredDefaultBranch) ==
    (IF configuredDefaultBranch # NoBranch
     THEN <<configuredDefaultBranch>> ELSE <<>>)
    \o <<develop, main, master>>

\* NoBranch stands for the undefined the function returns when it falls
\* off the end of its loop
getMainBranch(r, configuredDefaultBranch) ==
    FirstExisting(r, possibleBranchNames(configuredDefaultBranch))

\* git pull --rebase
pull(r, failing) ==
    LET success == /\ r.isRepo
                   /\ r.current \in r.local
                   /\ r.upstream[r.current] # NoBranch
                   /\ "pull" \notin failing
    IN  Ret(r, <<Cmd("pull", NoBranch, success)>>,
            IF success
            THEN GitOk(Msg("Repository updated successfully", NoBranch))
            ELSE GitFail(Stderr("pull")))

\* the pull is issued whatever the checkout did
update_PullAnyway(r, branch, failing) ==
    LET co == IF branch # NoBranch
              THEN switchToBranch(r, branch, failing)
              ELSE Ret(r, <<>>, GitOk(NoOutput))
        pulled == pull(co.repo, failing)
    IN  Ret(pulled.repo, co.log \o pulled.log, pulled.res)

\* GitService.update: git checkout <branch> when a branch is given, then pull
update(r, branch, failing) ==
    LET co == IF branch # NoBranch
              THEN switchToBranch(r, branch, failing)
              ELSE Ret(r, <<>>, GitOk(NoOutput))
    IN  IF ~co.res.success
        THEN Ret(co.repo, co.log, GitFail(co.res.error))
        ELSE LET pulled == pull(co.repo, failing)
             IN  Ret(pulled.repo, co.log \o pulled.log, pulled.res)

\* what a git process wrote to stderr: nothing when it exited 0
StderrOf(cmd, ok) ==
    IF ok THEN [kind |-> "stderr", detail |-> NoText] ELSE Stderr(cmd)

\* resetResult.stderr || cleanResult.stderr: both are Uint8Array objects, and
\* an object is truthy whatever its length, so || yields its left operand
BytesOr(a, b) == a

\* GitService.cleanSlate: git reset --hard HEAD, then git clean -fd whatever
\* the reset did
cleanSlate(r, failing) ==
    LET resetOk == r.isRepo /\ "reset" \notin failing
        afterReset == IF resetOk THEN [r EXCEPT !.tree = @ \ {"modified"}]
                      ELSE r
        cleanOk == r.isRepo /\ "clean" \notin failing
        afterClean == IF cleanOk
                      THEN [afterReset EXCEPT !.tree = @ \ {"untracked"}]
                      ELSE afterReset
        log == <<Cmd("reset", NoBranch, resetOk),
                 Cmd("clean", NoBranch, cleanOk)>>
    IN  IF resetOk /\ cleanOk
        THEN Ret(afterClean, log,
                 GitOk(Msg("Successfully discarded all changes", NoBranch)))
        ELSE Ret(afterClean, log,
                 GitFail(BytesOr(StderrOf("reset", resetOk),
                                 StderrOf("clean", cleanOk))))

\* git checkout -b <localBranchName> --track <remoteBranch>
checkoutRemoteBranch(r, remoteBranch, localBranchName, failing) ==
    LET success == /\ r.isRepo
                   /\ remoteBranch \in r.remote
                   /\ localBranchName \notin r.local
                   /\ "checkout --track" \notin failing
    IN  Ret(IF success THEN WithBranch(r, localBranchName, remoteBranch) ELSE r,
            <<Cmd("checkout --track", localBranchName, success)>>,
            IF success
            THEN GitOk(Msg("Checked out remote branch as ", localBranchName))
            ELSE GitFail(Stderr("checkout --track")))

----------------------------------------------------------------------------
\* OperationController: the handlers.

Result(success, message, error) ==
    [success |-> success, message |-> message, error |-> error]

NotThrown == [isError |-> FALSE, message |-> NoText]

\* what a handler hands back to execute(): the repository it leaves, the
\* commands it issued, and either its OperationResult or the value it threw
Handled(r, log, result) ==
    [repo |-> r, log |-> log, result |-> result, threw |-> FALSE,
     thrown |-> NotThrown]

Threw(r, log, e) ==
    [repo |-> r, log |-> log,
     result |-> Result(FALSE, NoOutput, NoError), threw |-> TRUE,
     thrown |-> e]

StashName(prefix, branch) == [prefix |-> prefix, branch |-> branch]

\* branchName.replace(/^origin\//, '')
StripOrigin(name) ==
    IF Len(name) > 1 /\ Head(name) = "origin" THEN Tail(name) ELSE name

\* branchName.replace(/^changeset\//, '')
StripChangeset(name) ==
    IF Len(name) > 1 /\ Head(name) = "changeset" THEN Tail(name) ELSE name

\* `changeset/${branchName}`
LocalBranchName(remoteBranch) ==
    <<"changeset">> \o StripChangeset(StripOrigin(remoteBranch))

\* the failure of the stash goes unnoticed
StashFailed_Ignored(stashResult) == FALSE

\* if (!stashResult.success) return { success: false, ... }
StashFailed(stashResult) == ~stashResult.success

switchChangeset(r, parameters, failing) ==
    IF parameters.branchName = NoBranch
    THEN Handled(r, <<>>,
                 Result(FALSE, Msg("Branch name is required", NoBranch), NoError))
    ELSE
    LET hasChanges == hasUncommittedChanges(r)
        status == <<Cmd("status", NoBranch, r.isRepo)>>
        currentBranch == getCurrentBranch(r)
        stashName == StashName("auto-stash-before-switch", currentBranch)
        stashed == IF hasChanges
                   THEN saveChanges(r, "stash", stashName, NoBranch, failing)
                   ELSE Ret(r, <<>>, GitOk(NoOutput))
        stashLog == IF hasChanges
                    THEN <<Cmd("branch --show-current", NoBranch, r.isRepo)>>
                         \o stashed.log
                    ELSE <<>>
        branchType == IF parameters.branchType = NoText
                      THEN "local" ELSE parameters.branchType
    IN  IF hasChanges /\ StashFailed(stashed.res)
        THEN Handled(stashed.repo, status \o stashLog,
                     Result(FALSE,
                            Msg("Failed to stash uncommitted changes", NoBranch),
                            stashed.res.error))
        ELSE IF branchType = "local"
        THEN LET sw == switchToBranch(stashed.repo, parameters.branchName,
                                      failing)
             IN  Handled(sw.repo, status \o stashLog \o sw.log,
                         Result(sw.res.success,
                                OrElse(sw.res.output,
                                       Msg("Switched to ", parameters.branchName)),
                                sw.res.error))
        ELSE LET remoteBranch == parameters.branchName
                 localBranchName == LocalBranchName(remoteBranch)
                 co == checkoutRemoteBranch(stashed.repo, remoteBranch,
                                            localBranchName, failing)
             IN  Handled(co.repo, status \o stashLog \o co.log,
                         Result(co.res.success,
                                OrElse(co.res.output,
                                       Msg("Created changeset ", localBranchName)),
                                co.res.error))

\* The environment decides the exit status of each command a workflow
\* issues.  "checkout" in failing makes every git checkout fail; a member
\* "checkout:<step>" makes the checkout of that step alone fail.
At(failing, step) ==
    failing \cup (IF step \in failing THEN {"checkout"} ELSE {})

\* const isClean = await gitService.hasUncommittedChanges(workingDir)
\* if (!isClean) { ... saveChanges(workingDir, 'stash', ...) }
NeedsStash(isClean) == ~isClean

\* the changeset branch is created without looking for an existing one
Resume_Never(exists) == FALSE

\* if (doesBranchExist) switchToBranch(...) else createBranch(...)
Resume(exists) == exists

\* an unresolved main branch goes unnoticed
NotFound_Ignored(mainBranchName) == FALSE

\* if (!mainBranchName) return { success: false, message: 'Main branch not found' }
NotFound(mainBranchName) == mainBranchName = NoBranch

\* the steps after the first failure are run all the same
Abort_Never(result) == FALSE

\* if (!result.success) return { success: false, ... }
Abort(result) == ~result.success

\* The workflow is written one step per definition, each step taking what
\* the steps before it left (repository, commands issued so far) and either
\* ending the workflow or handing over to the next step.

\* Create the changeset branch: switch to it when it exists, else create it
CreateChangesetBranch(prev, parameters, failing) ==
    LET branchName ==
            <<"changeset", Or(parameters.changesetName, "new-changeset")>>
        exists == doesBranchExist(prev.repo, branchName)
        final == IF Resume(exists)
                 THEN switchToBranch(prev.repo, branchName,
                                     At(failing, "checkout:changeset"))
                 ELSE createBranch(prev.repo, branchName, failing)
    IN  IF Abort(final.res)
        THEN Handled(final.repo, prev.log \o final.log,
                     Result(FALSE,
                            Msg(IF exists
                                THEN "Failed to switch to changeset branch"
                                ELSE "Failed to create changeset branch",
                                NoBranch),
                            final.res.error))
        ELSE Handled(final.repo, prev.log \o final.log,
                     Result(TRUE,
                            Msg("Changeset created/started successfully",
                                NoBranch),
                            NoError))

\* Update to latest changes
UpdateToLatest(prev, mainBranchName, parameters, failing) ==
    LET updateResult ==
            update(prev.repo, mainBranchName, At(failing, "checkout:update"))
    IN  IF Abort(updateResult.res)
        THEN Handled(updateResult.repo, prev.log \o updateResult.log,
                     Result(FALSE,
                            Msg("Failed to update to latest changes", NoBranch),
                            updateResult.res.error))
        ELSE CreateChangesetBranch(
                 Ret(updateResult.repo, prev.log \o updateResult.log,
                     updateResult.res),
                 parameters, failing)

\* Switch to main branch if not already on it
SwitchToMain(prev, currentBranch, mainBranchName, parameters, failing) ==
    LET switched == IF mainBranchName # currentBranch
                    THEN switchToBranch(prev.repo, mainBranchName,
                                        At(failing, "checkout:switch"))
                    ELSE Ret(prev.repo, <<>>, GitOk(NoOutput))
    IN  IF Abort(switched.res)
        THEN Handled(switched.repo, prev.log \o switched.log,
                     Result(FALSE,
                            Msg("Failed to switch to main branch", NoBranch),
                            switched.res.error))
        ELSE UpdateToLatest(
                 Ret(switched.repo, prev.log \o switched.log, switched.res),
                 mainBranchName, parameters, failing)

\* Identify the main branch name
IdentifyMain(prev, currentBranch, project, parameters, failing) ==
    LET mainBranchName ==
            getMainBranch(prev.repo, project.configuration.defaultBranch)
    IN  IF NotFound(mainBranchName)
        THEN Handled(prev.repo, prev.log,
                     Result(FALSE, Msg("Main branch not found", NoBranch),
                            NoError))
        ELSE SwitchToMain(prev, currentBranch, mainBranchName, parameters,
                          failing)

\* Check if we have uncommitted changes, and stash
StashUncommitted(r, currentBranch, failing) ==
    LET queries == <<Cmd("branch --show-current", NoBranch, r.isRepo),
                     Cmd("status", NoBranch, r.isRepo)>>
        isClean == hasUncommittedChanges(r)
        result == IF NeedsStash(isClean)
                  THEN saveChanges(r, "stash", StashName("wip", currentBranch),
                                   NoBranch, failing)
                  ELSE Ret(r, <<>>, GitOk(NoOutput))
    IN  Ret(result.repo, queries \o result.log, result.res)

freshChangeset(r, project, parameters, failing) ==
    LET currentBranch == getCurrentBranch(r)
        stashed == StashUncommitted(r, currentBranch, failing)
    IN  IF Abort(stashed.res)
        THEN Handled(stashed.repo, stashed.log,
                     Result(FALSE, Msg("Failed to stash changes", NoBranch),
                            stashed.res.error))
        ELSE IdentifyMain(stashed, currentBranch, project, parameters, failing)

NotAGitRepository(r) ==
    Handled(r, <<Cmd("rev-parse", NoBranch, FALSE)>>,
            Result(FALSE, Msg("Not a git repository", NoBranch), NoError))

\* OperationController.cleanSlate
cleanSlateOperation(r, failing) ==
    IF ~isGitRepository(r) THEN NotAGitRepository(r)
    ELSE LET result == cleanSlate(r, failing)
         IN  Handled(result.repo,
                     <<Cmd("rev-parse", NoBranch, TRUE)>> \o result.log,
                     Result(result.res.success,
                            OrElse(result.res.output,
                                   Msg("Clean slate completed", NoBranch)),
                            result.res.error))

\* the check for uncommitted changes is skipped
NothingToSave_Never(hasChanges) == FALSE

\* if (!hasChanges) return { success: true, message: 'No changes to save' }
NothingToSave(hasChanges) == ~hasChanges

\* OperationController.save
save(r, savePreference, failing) ==
    IF ~isGitRepository(r) THEN NotAGitRepository(r)
    ELSE LET queries == <<Cmd("rev-parse", NoBranch, TRUE),
                          Cmd("status", NoBranch, TRUE)>>
             hasChanges == hasUncommittedChanges(r)
         IN  IF NothingToSave(hasChanges)
             THEN Handled(r, queries,
                          Result(TRUE, Msg("No changes to save", NoBranch),
                                 NoError))
             ELSE LET result == saveChanges(r, savePreference, NoStashName,
                                            NoBranch, failing)
                  IN  Handled(result.repo, queries \o result.log,
                              Result(result.res.success,
                                     OrElse(result.res.output,
                                            Msg("Changes saved", NoBranch)),
                                     result.res.error))

\* OperationController.update
updateOperation(r, defaultBranch, failing) ==
    IF ~isGitRepository(r) THEN NotAGitRepository(r)
    ELSE LET result == update(r, defaultBranch, failing)
         IN  Handled(result.repo,
                     <<Cmd("rev-parse", NoBranch, TRUE)>> \o result.log,
                     Result(result.res.success,
                            OrElse(result.res.output,
                                   Msg("Repository updated", NoBranch)),
                            result.res.error))

\* ToolchainServiceFactory.getService
getService(toolchain) ==
    CASE toolchain = "vite" -> "viteService"
      [] toolchain = "nextjs" -> "nextJSService"
      [] toolchain = "react-router" -> "reactRouterService"
      [] OTHER -> "reactNativeService"

\* The toolchain adapter is an external collaborator: its install() resolves
\* to a success, resolves to a failure, or rejects with an Error.
AdapterOutcomes == {"ok", "fail", "throw"}

AdapterError == [isError |-> TRUE, message |-> "adapter rejected"]

install(r, parameters, project, adapter) ==
    LET service == getService(project.configuration.toolchain)
        call == <<Cmd("install", <<service>>, adapter = "ok")>>
    IN  IF adapter = "throw"
        THEN Threw(r, <<CmdThrew("install", <<service>>)>>, AdapterError)
        ELSE LET res == IF adapter = "ok"
                        THEN GitOk(Msg("Dependencies installed using ", <<"npm">>))
                        ELSE GitFail(Stderr("install"))
             IN  Handled(r, call,
                         Result(res.success,
                                OrElse(res.output,
                                       Msg("Dependencies installed", NoBranch)),
                                res.error))

\* one call of a method of a toolchain adapter and the OperationResult the
\* handler builds from what it resolves to
Delegate(r, service, method, args, adapter, fallback) ==
    IF adapter = "throw"
    THEN Threw(r, <<CmdThrew(method, <<service>> \o args)>>, AdapterError)
    ELSE LET res == IF adapter = "ok"
                    THEN GitOk(NoOutput) ELSE GitFail(Stderr(method))
         IN  Handled(r, <<Cmd(method, <<service>> \o args, adapter = "ok")>>,
                     Result(res.success,
                            OrElse(res.output, Msg(fallback, NoBranch)),
                            res.error))

\* the configured default is looked at first
Platform_DefaultFirst(parameters, project) ==
    Or(project.configuration.defaultPlatform, Or(parameters.platform, "ios"))

\* parameters.platform || project.configuration.defaultPlatform || 'ios'
Platform(parameters, project) ==
    Or(parameters.platform, Or(project.configuration.defaultPlatform, "ios"))

\* parameters.device || project.configuration.defaultDevice
Device(parameters, project) ==
    Or(parameters.device, project.configuration.defaultDevice)

\* mode === 'release' ? 'production' : 'development'
BuildMode(parameters) ==
    IF Or(parameters.mode, "debug") = "release"
    THEN "production" ELSE "development"

build(r, parameters, project, adapter) ==
    Delegate(r, getService(project.configuration.toolchain), "build",
             <<BuildMode(parameters), Platform(parameters, project)>>,
             adapter, "Build completed")

test(r, parameters, project, adapter) ==
    Delegate(r, getService(project.configuration.toolchain), "test", <<>>,
             adapter, "Tests completed")

run(r, project, parameters, adapter) ==
    Delegate(r, getService(project.configuration.toolchain), "run",
             <<Platform(parameters, project), Device(parameters, project),
               BuildMode(parameters)>>,
             adapter, "App running")

reset(r, project, adapter) ==
    Delegate(r, getService(project.configuration.toolchain), "reset", <<>>,
             adapter, "Cache reset")

\* reactNativeService.podInstall(workingDir)
podInstall(r, adapter) ==
    Delegate(r, "reactNativeService", "podInstall", <<>>, adapter,
             "Pods installed")

runScript(r, parameters, project, adapter) ==
    IF Falsy(parameters.scriptName)
    THEN Handled(r, <<>>,
                 Result(FALSE,
                        Msg("Run script operation requires a \"scriptName\" parameter",
                            NoBranch),
                        NoError))
    ELSE Delegate(r, getService(project.configuration.toolchain), "runScript",
                  <<parameters.scriptName>>, adapter, "Script executed")

custom(r, parameters, project, adapter) ==
    IF Falsy(parameters.command)
    THEN Handled(r, <<>>,
                 Result(FALSE,
                        Msg("Custom command requires a \"command\" parameter",
                            NoBranch),
                        NoError))
    ELSE Delegate(r, getService(project.configuration.toolchain),
                  "executeCustomCommand", <<parameters.command>>, adapter,
                  "Custom command executed")

----------------------------------------------------------------------------
\* OperationController.execute

\* const { type, parameters = {} } = operation
NoParameters ==
    [branchName |-> NoBranch, branchType |-> NoText,
     changesetName |-> Undefined, platform |-> Undefined,
     device |-> Undefined, mode |-> Undefined, scriptName |-> Undefined,
     command |-> Undefined]

Operation(type, branchName, branchType) ==
    [type |-> type,
     parameters |-> [NoParameters EXCEPT !.branchName = branchName,
                                         !.branchType = branchType]]

Env(failing, adapter) == [failing |-> failing, adapter |-> adapter]

\* error instanceof Error ? error.message : 'Unknown error'
ErrorMsg(e) == IF e.isError THEN e.message ELSE "Unknown error"

\* an unknown type is a silent no-op
Unknown_NoOp(type) == Result(TRUE, NoOutput, NoError)

\* default: result = { success: false, message: `Unknown operation type: ${type}` }
Unknown(type) ==
    Result(FALSE, Msg("Unknown operation type: ", <<type>>), NoError)

Dispatch(operation, project, r, env) ==
    CASE operation.type = "switch_changeset" ->
            switchChangeset(r, operation.parameters, env.failing)
      [] operation.type = "fresh" ->
            freshChangeset(r, project, operation.parameters, env.failing)
      [] operation.type = "clean_slate" ->
            cleanSlateOperation(r, env.failing)
      [] operation.type = "save" ->
            save(r, project.configuration.savePreference, env.failing)
      [] operation.type = "update" ->
            updateOperation(r, project.configuration.defaultBranch,
                            env.failing)
      [] operation.type = "install" ->
            install(r, operation.parameters, project, env.adapter)
      [] operation.type = "build" ->
            build(r, operation.parameters, project, env.adapter)
      [] operation.type = "test" ->
            test(r, operation.parameters, project, env.adapter)
      [] operation.type = "run" ->
            run(r, project, operation.parameters, env.adapter)
      [] operation.type = "reset" ->
            reset(r, project, env.adapter)
      [] operation.type = "pod_install" ->
            podInstall(r, env.adapter)
      [] operation.type = "run_script" ->
            runScript(r, operation.parameters, project, env.adapter)
      [] operation.type = "custom" ->
            custom(r, operation.parameters, project, env.adapter)
      [] OTHER ->
            Handled(r, <<>>, Unknown(operation.type))

\* no catch: the thrown value leaves execute()
Caught_Rethrown(h) ==
    [repo |-> h.repo, log |-> h.log, escapes |-> TRUE, result |-> h.result]

\* what execute() does with a value thrown inside its try block
Caught(h) ==
    [repo |-> h.repo, log |-> h.log, escapes |-> FALSE,
     result |-> Result(FALSE, Msg("Operation failed", NoBranch),
                       [kind |-> "exception", detail |-> ErrorMsg(h.thrown)])]

execute(operation, project, r, env) ==
    LET h == Dispatch(operation, project, r, env)
    IN  IF h.threw
        THEN Caught(h)
        ELSE [repo |-> h.repo, log |-> h.log, escapes |-> FALSE,
              result |-> h.result]

\* the commands of the fresh workflow that can fail on their own; the
\* workflow ends at the first failure, so one failing step per run covers
\* every outcome
FreshSteps ==
    {"stash", "checkout:switch", "checkout:update", "pull",
     "checkout:changeset", "checkout -b"}

\* the operation types handed to a toolchain adapter
ToolchainTypes ==
    {"install", "build", "test", "run", "reset", "run_script", "pod_install",
     "custom"}

\* the environment choices that matter to one operation
Envs(operation) ==
    CASE operation.type = "switch_changeset" ->
            {Env(f, "ok") : f \in SUBSET {"stash", "checkout", "checkout --track"}}
      [] operation.type = "fresh" ->
            {Env(f, "ok") : f \in {{}} \cup {{step} : step \in FreshSteps}}
      [] operation.type = "clean_slate" ->
            {Env(f, "ok") : f \in SUBSET {"reset", "clean"}}
      [] operation.type = "save" ->
            {Env(f, "ok") : f \in SUBSET {"stash", "checkout -b"}}
      [] operation.type = "update" ->
            {Env(f, "ok") : f \in SUBSET {"checkout", "pull"}}
      [] operation.type \in ToolchainTypes ->
            {Env({}, a) : a \in AdapterOutcomes}
      [] OTHER -> {Env({}, "ok")}

----------------------------------------------------------------------------
\* Inspection of the commit history.

\* How the git process of a query ends: it cannot be started
\* (Deno.Command.output() rejects) when env.spawn names it, it exits non-zero
\* when env.exit names it or git has a reason of its own, else it exits 0.
Fault(exit, spawn) == [exit |-> exit, spawn |-> spawn]

NoFault == Fault({}, {})

Rejects(cmd, env) == cmd \in env.spawn

Exits0(cmd, env, natural) == natural /\ cmd \notin env.exit

\* the commits reachable from c
RECURSIVE Reachable(_, _)
Reachable(h, c) ==
    IF c = 0 THEN {}
    ELSE {c} \cup UNION {Reachable(h, p) : p \in h.parents[c]}

\* git rev-list <exclude>..<include>
RevList(h, exclude, include) == Reachable(h, include) \ Reachable(h, exclude)

\* git merge-base <a> <b> prints one best common ancestor: a common ancestor
\* that no other common ancestor descends from; none: exit status 1
MergeBases(h, a, b) ==
    LET common == Reachable(h, a) \cap Reachable(h, b)
    IN  {c \in common : \A d \in common \ {c} : c \notin Reachable(h, d)}

\* the committer date of a commit, in seconds
CommitTime(c) == 10 + c

DigitChars == <<"0", "1", "2", "3", "4", "5", "6", "7", "8", "9">>

\* a natural number as git prints it
RECURSIVE Digits(_)
Digits(n) ==
    IF n < 10 THEN <<DigitChars[n + 1]>>
    ELSE Digits(n \div 10) \o <<DigitChars[(n % 10) + 1]>>

NaN == -1

\* parseInt(text) of a string of decimal digits; NaN for the empty string
RECURSIVE ParseInt(_)
ParseInt(text) ==
    IF text = <<>> THEN NaN
    ELSE LET last == CHOOSE d \in 0..9 : DigitChars[d + 1] = text[Len(text)]
             front == SubSeq(text, 1, Len(text) - 1)
         IN  IF front = <<>> THEN last ELSE ParseInt(front) * 10 + last

NoDate == [known |-> FALSE, ms |-> 0]

\* if (timestamp) return new Date(parseInt(timestamp) * 1000); else null
ToDate(timestamp) ==
    IF timestamp = <<>> THEN NoDate
    ELSE [known |-> TRUE, ms |-> ParseInt(timestamp) * 1000]

\* git log --format=%ct -1 <commit>: stdout, trimmed
LogTime(c) == Digits(CommitTime(c))

\* if (!output): git log -1 <main>..HEAD printed nothing
UpToDate(h) == RevList(h, h.mainAt, h.head) = {}

\* GitService.getLastSyncFromMain: every value the call can return, one for
\* each commit git merge-base may print
getLastSyncFromMain(r, h, env) ==
    LET used == IF UpToDate(h) THEN {"log range", "log main"}
                ELSE {"log range", "merge-base", "log base"}
        known == r.isRepo /\ h.mainAt # 0
    IN  IF \E cmd \in used : Rejects(cmd, env) THEN {NoDate}
        ELSE IF ~Exits0("log range", env, known) THEN {NoDate}
        ELSE IF UpToDate(h)
        THEN IF Exits0("log main", env, TRUE)
             THEN {ToDate(LogTime(h.mainAt))} ELSE {NoDate}
        ELSE IF ~Exits0("merge-base", env, MergeBases(h, h.mainAt, h.head) # {})
        THEN {NoDate}
        ELSE {IF Exits0("log base", env, TRUE)
              THEN ToDate(LogTime(mergeBase)) ELSE NoDate :
                 mergeBase \in MergeBases(h, h.mainAt, h.head)}

\* parseInt(n) || 0
OrZero(n) == IF n = NaN \/ n = 0 THEN 0 ELSE n

\* the two counts taken in the opposite order
Destructure_AheadFirst(counts) == [ahead |-> counts[1], behind |-> counts[2]]

\* const [behind, ahead] = output.split('\t').map(n => parseInt(n) || 0)
Destructure(counts) == [ahead |-> counts[2], behind |-> counts[1]]

\* GitService.getBranchDivergence:
\* git rev-list --left-right --count <main>...HEAD prints "<left>\t<right>"
getBranchDivergence(r, h, env) ==
    IF Rejects("rev-list", env) THEN [ahead |-> 0, behind |-> 0]
    ELSE IF ~Exits0("rev-list", env, r.isRepo /\ h.mainAt # 0)
    THEN [ahead |-> 0, behind |-> 0]
    ELSE LET left == RevList(h, h.head, h.mainAt)
             right == RevList(h, h.mainAt, h.head)
             output == <<Digits(Cardinality(left)), Digits(Cardinality(right))>>
         IN  Destructure([i \in 1..2 |-> OrZero(ParseInt(output[i]))])

----------------------------------------------------------------------------
\* Repository inspection.

\* every remote ref of the model, in the order git branch -r lists refs
\* unless configured otherwise (branch.sort): ascending by name
RefOrder ==
    <<OriginHead, OriginChangesetB, OriginFeatureY, OriginHotfix, OriginMain>>

RECURSIVE Includes(_, _)
Includes(seq, x) ==
    IF seq = <<>> THEN FALSE
    ELSE IF Head(seq) = x THEN TRUE ELSE Includes(Tail(seq), x)

\* branch.includes('HEAD')
IncludesHEAD(branch) == Includes(branch, "HEAD")

\* git fetch --prune: the remote-tracking refs become the server's branches
fetchPrune(r, failing) ==
    IF r.isRepo /\ "fetch" \notin failing
    THEN [r EXCEPT !.remote =
             {<<"origin">> \o b : b \in r.server}
             \cup (r.remote \cap {OriginHead})]
    ELSE r

\* insert x behind every element at least as recent: a stable descending sort
RECURSIVE InsertByDate(_, _)
InsertByDate(sorted, x) ==
    IF sorted = <<>> THEN <<x>>
    ELSE IF Head(sorted).date >= x.date
         THEN <<Head(sorted)>> \o InsertByDate(Tail(sorted), x)
         ELSE <<x>> \o sorted

\* branchesWithDates.sort((a, b) => b.date - a.date)
RECURSIVE SortByDate(_)
SortByDate(seq) ==
    IF seq = <<>> THEN <<>>
    ELSE InsertByDate(SortByDate(SubSeq(seq, 1, Len(seq) - 1)), seq[Len(seq)])

\* remoteBranch => !localBranches.includes(remoteBranch.replace(/^origin\//, ''))
NoLocalEquivalent(r, remoteBranch) == StripOrigin(remoteBranch) \notin r.local

\* git branch -r --format=%(refname:short), split into lines, without HEAD;
\* listing is the order in which git prints the refs
ListRemoteBranches(r, listing) ==
    SelectSeq(listing, LAMBDA b : b \in r.remote /\ ~IncludesHEAD(b))

\* git log -1 --format=%ct <branch> inside its own try: the commit time in
\* milliseconds, 0 when git does not tell (r.ctime[branch] = 0: git has no
\* commit to show for the ref)
BranchDate(r, branch, env) ==
    IF Rejects("log", env) THEN 0
    ELSE IF Exits0("log", env, r.ctime[branch] # 0)
    THEN ParseInt(Digits(r.ctime[branch])) * 1000
    ELSE 0

\* unsyncedBranches.map(async (branch) => ({ branch, date }))
WithDates(r, unsyncedBranches, env) ==
    [i \in 1..Len(unsyncedBranches) |->
        [branch |-> unsyncedBranches[i],
         date |-> BranchDate(r, unsyncedBranches[i], env)]]

\* sorted.map(item => ({ branch, date: item.date > 0 ? new Date(item.date)
\* : null })) when includeDate, else sorted.map(item => item.branch)
Present(sorted, includeDate) ==
    [i \in 1..Len(sorted) |->
        IF includeDate
        THEN [branch |-> sorted[i].branch,
              date |-> IF sorted[i].date > 0
                       THEN [known |-> TRUE, ms |-> sorted[i].date]
                       ELSE NoDate]
        ELSE sorted[i].branch]

\* GitService.getUnsyncedRemoteBranches: the repository as git fetch --prune
\* left it and the value returned
getUnsyncedRemoteBranches(r, listing, includeDate, env) ==
    IF Rejects("fetch", env) THEN [repo |-> r, value |-> <<>>]
    ELSE
    LET fetched == fetchPrune(r, IF Exits0("fetch", env, TRUE)
                                 THEN {} ELSE {"fetch"})
        remoteBranches == ListRemoteBranches(fetched, listing)
    IN  [repo |-> fetched,
         value |->
            IF Rejects("branch -r", env) THEN <<>>
            ELSE IF ~Exits0("branch -r", env, r.isRepo) THEN <<>>
            ELSE IF Rejects("branch", env) THEN <<>>
            ELSE IF ~Exits0("branch", env, TRUE) THEN remoteBranches
            ELSE Present(
                     SortByDate(
                         WithDates(fetched,
                                   SelectSeq(remoteBranches,
                                             LAMBDA b :
                                                 NoLocalEquivalent(fetched, b)),
                                   env)),
                     includeDate)]

\* The inspection queries with the ways their git process can end.

\* GitService.isGitRepository: return output.success; catch: return false
isGitRepositoryQuery(r, env) ==
    IF Rejects("rev-parse", env) THEN FALSE
    ELSE Exits0("rev-parse", env, r.isRepo)

\* GitService.getCurrentBranch: stdout when git exits 0, else null
getCurrentBranchQuery(r, env) ==
    IF Rejects("branch --show-current", env) THEN NoBranch
    ELSE IF Exits0("branch --show-current", env, r.isRepo) THEN r.current
    ELSE NoBranch

\* git status --porcelain: one line per change, XY and the path; nothing on
\* stdout when git exits non-zero
Porcelain(r, env) ==
    IF ~Exits0("status", env, r.isRepo) THEN <<>>
    ELSE (IF "modified" \in r.tree
          THEN <<[xy |-> " M", path |-> "tracked.ts"]>> ELSE <<>>)
         \o (IF "untracked" \in r.tree
             THEN <<[xy |-> "??", path |-> "new.ts"]>> ELSE <<>>)

\* GitService.hasUncommittedChanges: the exit status is not looked at
hasUncommittedChangesQuery(r, env) ==
    IF Rejects("status", env) THEN FALSE
    ELSE Len(Porcelain(r, env)) > 0

\* line.substring(0, 2).trim()
TrimStatus(xy) == IF xy = " M" THEN "M" ELSE xy

\* GitService.getChangeset
getChangeset(r, env) ==
    IF Rejects("status", env) THEN <<>>
    ELSE IF ~Exits0("status", env, r.isRepo) THEN <<>>
    ELSE LET lines == Porcelain(r, env)
         IN  [i \in 1..Len(lines) |->
                [status |-> TrimStatus(lines[i].xy), file |-> lines[i].path]]

\* GitService.getMainBranch over doesBranchExist, which returns false when
\* git rev-parse --verify exits non-zero and in its catch
getMainBranchQuery(r, configuredDefaultBranch, env) ==
    IF Rejects("rev-parse --verify", env) THEN NoBranch
    ELSE IF ~Exits0("rev-parse --verify", env, TRUE) THEN NoBranch
    ELSE getMainBranch(r, configuredDefaultBranch)

\* GitService.getChangesetsWithTracking: every local changeset/ branch with
\* the upstream git rev-parse --abbrev-ref <branch>@{upstream} reports
getChangesetsWithTracking(r) ==
    IF ~r.isRepo THEN {}
    ELSE {[branch |-> b, trackingBranch |-> r.upstream[b]] :
             b \in {x \in r.local : Len(x) > 1 /\ Head(x) = "changeset"}}

\* the set holds the changesets' own names instead of their upstreams
trackedRemoteBranches_LocalNames(localChangesets) ==
    {<<"origin">> \o cs.branch : cs \in localChangesets}

\* new Set(localChangesets.map(cs => cs.trackingBranch).filter(tb => tb !== null))
trackedRemoteBranches(localChangesets) ==
    {cs.trackingBranch : cs \in localChangesets} \ {NoBranch}

\* nothing is subtracted
FilterRemoteBranches_None(allRemoteBranches, tracked) == allRemoteBranches

\* allRemoteBranches.filter(item => !trackedRemoteBranches.has(item.branch))
FilterRemoteBranches(allRemoteBranches, tracked) ==
    SelectSeq(allRemoteBranches, LAMBDA item : item.branch \notin tracked)

\* loadProjectGitInfo: the repository state shown for the selected project,
\* and the repository as the refresh of the remote refs left it
loadProjectGitInfo(r, env) ==
    LET unsynced == getUnsyncedRemoteBranches(r, RefOrder, TRUE, env)
        localChangesets == getChangesetsWithTracking(unsynced.repo)
    IN  [repo |-> unsynced.repo,
         info |->
            [loaded |-> TRUE,
             currentBranch |-> getCurrentBranch(unsynced.repo),
             localChangesets |-> localChangesets,
             unsyncedRemoteBranches |->
                 FilterRemoteBranches(unsynced.value,
                                      trackedRemoteBranches(localChangesets))]]

NoInfo ==
    [loaded |-> FALSE, currentBranch |-> NoBranch, localChangesets |-> {},
     unsyncedRemoteBranches |-> <<>>]

----------------------------------------------------------------------------
\* Initial states.

ProjectWith(toolchain, defaultBranch, defaultPlatform, defaultDevice) ==
    [name |-> "app",
     configuration |-> [toolchain |-> toolchain, savePreference |-> "stash",
                        defaultBranch |-> defaultBranch,
                        defaultPlatform |-> defaultPlatform,
                        defaultDevice |-> defaultDevice]]

Project == ProjectWith("vite", main, Undefined, Undefined)

Trees == SUBSET {"modified", "untracked"}

Repo(isRepo, current, tree, upstreamA) ==
    [isRepo |-> isRepo,
     local |-> {main, ChangesetA},
     remote |-> {OriginHead, OriginMain, OriginChangesetB, OriginFeatureY},
     server |-> {main, <<"changeset", "b">>, <<"feature", "y">>, <<"hotfix">>},
     upstream |-> [x \in {main, ChangesetA} |->
                      IF x = main THEN OriginMain ELSE upstreamA],
     current |-> current,
     tree |-> tree,
     stashes |-> <<>>,
     ctime |-> [b \in {OriginHead, OriginMain, OriginChangesetB,
                       OriginFeatureY, OriginHotfix} |->
                   CASE b = OriginHotfix -> 5
                     [] b = OriginMain -> 1
                     [] OTHER -> 3]]

\* a working directory outside any git work tree
NotARepo == Repo(FALSE, NoBranch, {}, NoBranch)

InitRepos ==
    {Repo(TRUE, c, t, u) : c \in {main, ChangesetA}, t \in Trees,
                           u \in {NoBranch, OriginFeatureY}}
    \cup {NotARepo}

SwitchLocalA == Operation("switch_changeset", ChangesetA, "local")

SwitchRemoteY == Operation("switch_changeset", OriginFeatureY, "remote")

SwitchRemoteB == Operation("switch_changeset", OriginChangesetB, "remote")

Install == Operation("install", NoBranch, NoText)

Deploy == Operation("deploy", NoBranch, NoText)

\* the operations a custom command's list is drawn from
SequenceOps == {SwitchLocalA, SwitchRemoteY, Install, Deploy}

\* the operations picked in the interactive session
SessionOps ==
    {SwitchLocalA, SwitchRemoteY, SwitchRemoteB, Install, Deploy,
     Operation("switch_changeset", main, NoText),
     Operation("switch_changeset", NoBranch, "local")}

OpLists == UNION {[1..n -> SequenceOps] : n \in 0..MaxOps}

NoOp == Operation(NoText, NoBranch, NoText)

\* no custom command has been aggregated
NoAggregate ==
    [done |-> FALSE, success |-> FALSE, message |-> NoText, error |-> NoError]

\* The call chains of the interactive view: 0 is handleOperationSelect, whose
\* execute() is awaited; i > 0 is the refresh of the project information
\* started, without await, on leaving the result of the i-th operation.
Tasks == 0..MaxCalls

\* a call chain with no call in progress
Idle ==
    [active |-> FALSE, op |-> NoOp, env |-> Env({}, "ok"), fault |-> NoFault,
     todo |-> <<>>]

NoPending == [t \in Tasks |-> Idle]

\* The commit graph: commit c has the parents parents[c], all older than c;
\* head is the commit HEAD names and mainAt the commit the main branch
\* names, 0 when there is no branch of that name.
NoHistory == [parents |-> <<>>, head |-> 0, mainAt |-> 0]

\* what a query returned, with the git processes that failed during it and
\* the order in which git listed the refs, where it lists any
Answer(query, env, input, value) ==
    [query |-> query, env |-> env, input |-> input, value |-> value]

\* no query asked yet
NoAnswer == Answer(NoText, NoFault, NoText, NoText)

\* Logger objects live on a heap: arrays and sets are objects, and a field
\* of a logger holds a reference to one, not its contents.
\*   arrays     every array allocated so far, by reference
\*   sets       every observer Set allocated so far, by reference
\*   logs       the array each logger's logs field refers to (0: no logger)
\*   observers  the Set each logger's observers field refers to
\*   counter    each logger's logIdCounter
\*   delivered  per observer callback, the entries it was called with
\*   subscribed history: the callbacks subscribed and not unsubscribed
\*   logged     history: every entry logged, with the callbacks subscribed then
NoLoggers ==
    [arrays |-> <<>>, sets |-> <<>>,
     logs |-> [w \in {"parent", "child"} |-> 0],
     observers |-> [w \in {"parent", "child"} |-> 0],
     counter |-> [w \in {"parent", "child"} |-> 0],
     delivered |-> [o \in {"o1", "o2"} |-> <<>>],
     subscribed |-> {}, logged |-> <<>>]

\* nothing running, no history inspected, no query asked, no logger made
InitAux ==
    /\ running = {}
    /\ pending = NoPending
    /\ history = NoHistory
    /\ answer = NoAnswer
    /\ loggers = NoLoggers

Tag(log, i) ==
    [k \in 1..Len(log) |->
        [op |-> i, cmd |-> log[k].cmd, arg |-> log[k].arg, ok |-> log[k].ok,
         threw |-> log[k].threw]]

\* a caller about to run executeSequence(ops, Project, continueOnError)
Init ==
    /\ repo \in {Repo(TRUE, main, t, NoBranch) : t \in Trees}
    /\ ops \in OpLists
    /\ continueOnError \in BOOLEAN
    /\ results = <<>>
    /\ producer = <<>>
    /\ idx = 1
    /\ pc = "loop"
    /\ inflight = {}
    /\ cmds = <<>>
    /\ escaped = FALSE
    /\ before = repo
    /\ lastOp = NoOp
    /\ info = NoInfo
    /\ calls = 0
    /\ derived = NoBranch
    /\ selectedProject = Project
    /\ resolved = NoBranch
    /\ aggregate = NoAggregate
    /\ InitAux

----------------------------------------------------------------------------
\* OperationController.executeSequence

\* the call is not awaited (results collected as the promises settle)
Awaited_NotAwaited == TRUE

\* await: the loop body resumes only when the pending execute() has settled
Awaited == inflight = {}

\* for (const operation of operations) { ... this.execute(operation, project)
ExecuteStart ==
    /\ pc = "loop"
    /\ idx <= Len(ops)
    /\ Awaited
    /\ inflight' = inflight \cup {idx}
    /\ idx' = idx + 1
    /\ lastOp' = ops[idx]
    /\ before' = repo
    /\ UNCHANGED <<selectedProject, resolved, aggregate>>
    /\ UNCHANGED aux
    /\ UNCHANGED <<repo, ops, continueOnError, results, producer, pc, cmds,
                   escaped, info, calls, derived>>

\* the break is lost: the loop always goes on
Break_Never(result, coe) == FALSE

\* the flag is ignored: the loop stops at every failure
Break_IgnoringFlag(result, coe) == ~result.success

\* if (!result.success && !continueOnError) break
Break(result, coe) == ~result.success /\ ~coe

\* ... const result = await ...; results.push(result); if (...) break }
ExecuteReturn ==
    /\ pc = "loop"
    /\ \E i \in inflight : \E env \in Envs(ops[i]) :
         LET out == execute(ops[i], selectedProject, repo, env)
         IN  /\ repo' = out.repo
             /\ cmds' = cmds \o Tag(out.log, i)
             /\ inflight' = inflight \ {i}
             /\ IF out.escapes
                THEN /\ escaped' = TRUE
                     /\ pc' = "threw"
                     /\ results' = results
                     /\ producer' = producer
                ELSE /\ escaped' = escaped
                     /\ results' = Append(results, out.result)
                     /\ producer' = Append(producer, i)
                     /\ pc' = IF Break(out.result, continueOnError)
                              THEN "returned" ELSE "loop"
    /\ UNCHANGED <<selectedProject, resolved, aggregate>>
    /\ UNCHANGED aux
    /\ UNCHANGED <<ops, continueOnError, idx, before, lastOp, info, calls,
                   derived>>

\* the iterator is exhausted: return results
SequenceReturn ==
    /\ pc = "loop"
    /\ idx > Len(ops)
    /\ inflight = {}
    /\ pc' = "returned"
    /\ UNCHANGED <<selectedProject, resolved, aggregate>>
    /\ UNCHANGED aux
    /\ UNCHANGED <<repo, ops, continueOnError, results, producer, idx,
                   inflight, cmds, escaped, before, lastOp, info, calls,
                   derived>>

\* success as soon as one operation succeeded
AllSuccess_Some(rs) == \E i \in 1..Len(rs) : rs[i].success

\* results.every((r) => r.success)
AllSuccess(rs) == \A i \in 1..Len(rs) : rs[i].success

\* results.find((r) => !r.success)?.error, NoError for undefined
RECURSIVE FindError(_)
FindError(rs) ==
    IF rs = <<>> THEN NoError
    ELSE IF ~Head(rs).success THEN Head(rs).error ELSE FindError(Tail(rs))

\* handleOperationSelect, custom command: the sequence was run with the
\* default continueOnError and its results are aggregated
Aggregate ==
    /\ pc = "returned"
    /\ ~continueOnError
    /\ ~aggregate.done
    /\ aggregate' =
          [done |-> TRUE,
           success |-> AllSuccess(results),
           message |-> IF AllSuccess(results)
                       THEN "Custom command completed successfully"
                       ELSE "Custom command failed",
           error |-> FindError(results)]
    /\ UNCHANGED <<repo, ops, continueOnError, results, producer, idx, pc,
                   inflight, cmds, escaped, before, lastOp, info, calls,
                   derived, selectedProject, resolved>>
    /\ UNCHANGED aux

Next == ExecuteStart \/ ExecuteReturn \/ SequenceReturn \/ Aggregate

Spec == Init /\ [][Next]_vars

----------------------------------------------------------------------------
\* Claims about executeSequence, checked under Spec.

InListOrder == \A i \in 1..Len(results) : producer[i] = i

Failed(k) == k \in 1..Len(results) /\ ~results[k].success

\* C1: with continueOnError = false the list returned is the results of
\* operations 1..k in list order, k being the first operation that failed:
\* the failing result is last, every earlier one is a success, and no
\* operation after k is started (no call, no command).
C1_StopsAtFirstFailure ==
    ~continueOnError =>
        /\ InListOrder
        /\ \A k \in 1..Len(results) : Failed(k) =>
              /\ k = Len(results)
              /\ \A j \in 1..(k - 1) : results[j].success
              /\ pc = "returned"
              /\ idx = k + 1
              /\ inflight = {}
              /\ \A e \in 1..Len(cmds) : cmds[e].op <= k

C1_Witness ==
    /\ pc = "returned" /\ ~continueOnError
    /\ Len(ops) = 3 /\ Len(results) = 2
    /\ results[1].success /\ ~results[2].success

\* C2: with continueOnError = true every operation is executed whatever the
\* earlier outcomes, and the list returned has one result per operation, the
\* i-th being that of operation i.
C2_ContinueRunsAll ==
    (continueOnError /\ pc = "returned") =>
        /\ Len(results) = Len(ops)
        /\ InListOrder
        /\ idx = Len(ops) + 1

C2_Witness ==
    /\ pc = "returned" /\ continueOnError
    /\ Len(ops) = 3 /\ Len(results) = 3
    /\ ~results[1].success /\ ~results[2].success /\ results[3].success

\* C3 as stated: whenever an operation fails with continueOnError = false,
\* the list returned is shorter than the list of operations.
C3_ShorterThanInput ==
    (pc = "returned" /\ ~continueOnError /\ \E k \in 1..Len(results) : Failed(k))
        => Len(results) < Len(ops)

\* C3 amended: whenever an operation fails with continueOnError = false, the
\* length of the list returned is the position of the failing operation; it
\* is shorter than the list of operations exactly when the failing operation
\* is not the last one.
C3_LengthIsFailingPosition ==
    (pc = "returned" /\ ~continueOnError) =>
        \A k \in 1..Len(results) : Failed(k) =>
            /\ Len(results) = producer[k]
            /\ producer[k] <= Len(ops)
            /\ (Len(results) < Len(ops)) <=> (producer[k] # Len(ops))

C3_Witness ==
    /\ pc = "returned" /\ ~continueOnError
    /\ Len(ops) = 2 /\ Len(results) = 2 /\ Failed(2)

\* C4: operations run strictly in list order and never overlap: at most one
\* execute() is pending, operation i is started only once operations
\* 1..i-1 have returned their results, and the commands issued appear in
\* the order of the operations that issued them.
C4_InOrderNoOverlap ==
    /\ Cardinality(inflight) <= 1
    /\ \A i \in inflight : Len(results) = i - 1
    /\ InListOrder
    /\ \A a, b \in 1..Len(cmds) : a < b => cmds[a].op <= cmds[b].op
    /\ \A e \in 1..Len(cmds) : cmds[e].op <= Len(results)

C4_Witness ==
    /\ inflight = {3}
    /\ \E a, b \in 1..Len(cmds) : cmds[a].op = 1 /\ cmds[b].op = 2

\* C5: no exception leaves execute(): when a handler throws, the result is
\* {success: false, message: 'Operation failed', error: <the exception's
\* message>}, and executeSequence goes on to return its list.
C5_NothingEscapes ==
    /\ ~escaped
    /\ pc # "threw"
    /\ \A e \in 1..Len(cmds) : cmds[e].threw =>
          /\ cmds[e].op <= Len(results)
          /\ results[cmds[e].op] =
                Result(FALSE, Msg("Operation failed", NoBranch),
                       [kind |-> "exception", detail |-> AdapterError.message])

C5_Witness ==
    /\ pc = "returned"
    /\ Len(results) = 3
    /\ \E e \in 1..Len(cmds) : cmds[e].threw /\ cmds[e].op = 1

\* C17: the aggregated result of a custom command is computed from the list
\* executeSequence returned: success is the conjunction of the results'
\* success flags (true for an empty list), and error is the error of the
\* first result that failed, absent when all succeeded.
C17_AggregateOfReturnedList ==
    aggregate.done =>
        /\ aggregate.success <=> (\A i \in 1..Len(results) : results[i].success)
        /\ Len(ops) = 0 => aggregate.success
        /\ aggregate.success => aggregate.error = NoError
        /\ ~aggregate.success =>
              \E k \in 1..Len(results) :
                  /\ ~results[k].success
                  /\ \A j \in 1..(k - 1) : results[j].success
                  /\ aggregate.error = results[k].error

C17_Witness ==
    /\ aggregate.done
    /\ Len(ops) = 3 /\ Len(results) = 2
    /\ results[1].success /\ ~results[2].success
    /\ ~aggregate.success
    /\ aggregate.error = Stderr("install")

\* the operation types execute() knows
KnownTypes ==
    {"clean_slate", "fresh", "switch_changeset", "save", "update", "install",
     "build", "test", "run", "reset", "pod_install", "run_script", "custom"}

\* C18: execute, given an operation type outside the enumeration, returns
\* success = false with a message naming the type and issues no git command
\* and no adapter call; with continueOnError = false the sequence stops
\* there like at any other failure.
C18_UnknownTypeFails ==
    \A k \in 1..Len(results) :
        LET op == ops[producer[k]]
        IN  op.type \notin KnownTypes =>
               /\ results[k] =
                     Result(FALSE, Msg("Unknown operation type: ", <<op.type>>),
                            NoError)
               /\ \A e \in 1..Len(cmds) : cmds[e].op # producer[k]
               /\ ~continueOnError =>
                     /\ k = Len(results)
                     /\ pc = "returned"
                     /\ idx = producer[k] + 1

C18_Witness ==
    /\ ~continueOnError /\ pc = "returned"
    /\ Len(ops) = 3 /\ ops[2] = Deploy
    /\ Len(results) = 2 /\ results[1].success
    /\ \E e \in 1..Len(cmds) : cmds[e].op = 1

----------------------------------------------------------------------------
\* The interactive session: the user picks one operation at a time and the
\* project's repository state is loaded again before the next pick.

InitSession ==
    /\ repo \in InitRepos
    /\ ops = <<>>
    /\ continueOnError = FALSE
    /\ results = <<>>
    /\ producer = <<>>
    /\ idx = 1
    /\ pc = "menu"
    /\ inflight = {}
    /\ cmds = <<>>
    /\ escaped = FALSE
    /\ before = repo
    /\ lastOp = NoOp
    /\ info = NoInfo
    /\ calls = 0
    /\ derived = NoBranch
    /\ selectedProject = Project
    /\ resolved = NoBranch
    /\ aggregate = NoAggregate
    /\ InitAux

\* handleOperationSelect: result = await operationController.execute(...)
SessionExecute ==
    /\ pc = "menu"
    /\ calls < MaxCalls
    /\ \E op \in SessionOps : \E env \in Envs(op) :
         LET out == execute(op, selectedProject, repo, env)
         IN  /\ repo' = out.repo
             /\ results' = <<out.result>>
             /\ cmds' = Tag(out.log, calls + 1)
             /\ escaped' = out.escapes
             /\ lastOp' = op
    /\ before' = repo
    /\ info' = NoInfo
    /\ calls' = calls + 1
    /\ UNCHANGED <<selectedProject, resolved, aggregate>>
    /\ UNCHANGED aux
    /\ UNCHANGED <<ops, continueOnError, producer, idx, pc, inflight, derived>>

\* loadProjectGitInfo(selectedProject), the remote refs refreshed first
Inspect ==
    /\ pc = "menu"
    /\ \E env \in {NoFault, Fault({"fetch"}, {})} :
         LET loaded == loadProjectGitInfo(repo, env)
         IN  /\ repo' = loaded.repo
             /\ info' = loaded.info
    /\ UNCHANGED <<selectedProject, resolved, aggregate>>
    /\ UNCHANGED aux
    /\ UNCHANGED <<ops, continueOnError, results, producer, idx, pc, inflight,
                   cmds, escaped, before, lastOp, calls, derived>>

NextSession == SessionExecute \/ Inspect

SpecSession == InitSession /\ [][NextSession]_vars

----------------------------------------------------------------------------
\* Claims about inspection and switch_changeset, checked under SpecSession.

IsChangeset(b) == Len(b) > 1 /\ Head(b) = "changeset"

Listed(i) == {i.unsyncedRemoteBranches[k].branch :
                 k \in 1..Len(i.unsyncedRemoteBranches)}

IsSwitch(op) == op.type = "switch_changeset" /\ op.parameters.branchName # NoBranch

IsRemoteSwitch(op) == IsSwitch(op) /\ op.parameters.branchType = "remote"

IsLocalSwitch(op) == IsSwitch(op) /\ op.parameters.branchType \in {"local", NoText}

Succeeded == results # <<>> /\ results[1].success

Issued(kinds) == {k \in 1..Len(cmds) : cmds[k].cmd \in kinds}

Checkouts == Issued({"checkout", "checkout --track", "checkout -b"})

Stashes == Issued({"stash"})

\* C8: switch_changeset on a working tree with uncommitted changes creates
\* exactly one stash (the stash list grows by one entry unless the stash
\* command itself fails), and the stash command comes before any checkout; on
\* a clean tree it creates no stash. With branchType = local and a successful
\* checkout the result is a success whose message names the target branch.
C8_OneStashBeforeCheckout ==
    IsSwitch(lastOp) =>
        /\ (hasUncommittedChanges(before) /\ \A s \in Stashes : cmds[s].ok) =>
              /\ Cardinality(Stashes) = 1
              /\ \A s \in Stashes : \A c \in Checkouts : s < c
              /\ Len(repo.stashes) = Len(before.stashes) + 1
        /\ ~hasUncommittedChanges(before) =>
              /\ Stashes = {}
              /\ repo.stashes = before.stashes
        /\ (IsLocalSwitch(lastOp) /\ \E c \in Checkouts : cmds[c].ok) =>
              /\ Succeeded
              /\ results[1].message.arg = lastOp.parameters.branchName
              /\ repo.current = lastOp.parameters.branchName

\* C9: when the auto-stash of switch_changeset fails, the result is a failure
\* carrying the stash's error, no checkout of either kind is issued, and the
\* current branch, the working tree and the stash list are as they were.
C9_FailedStashStopsSwitch ==
    (IsSwitch(lastOp) /\ \E s \in Stashes : ~cmds[s].ok) =>
        /\ results # <<>>
        /\ ~results[1].success
        /\ results[1].error = Stderr("stash")
        /\ Checkouts = {}
        /\ repo.current = before.current
        /\ repo.tree = before.tree
        /\ repo.stashes = before.stashes
        /\ repo.local = before.local
        /\ repo.upstream = before.upstream

C9_Witness ==
    /\ lastOp = SwitchRemoteY
    /\ before.tree = {"modified", "untracked"}
    /\ \E s \in Stashes : ~cmds[s].ok
    /\ ~Succeeded

----------------------------------------------------------------------------
\* Checking out a remote branch as a new local changeset: one
\* switch_changeset with branchType = remote for each remote branch name.

Segs == {"origin", "changeset", "feature", "x"}

\* the names a remote branch can carry, up to MaxSegs path segments
RemoteNames == UNION {[1..n -> Segs] : n \in 1..MaxSegs}

SwitchRemote(name) == Operation("switch_changeset", name, "remote")

InitDerive ==
    /\ \E name \in RemoteNames : \E t \in Trees :
          /\ ops = <<SwitchRemote(name)>>
          /\ repo = [Repo(TRUE, main, t, NoBranch) EXCEPT !.remote = {name}]
    /\ continueOnError = FALSE
    /\ results = <<>>
    /\ producer = <<>>
    /\ idx = 1
    /\ pc = "derive"
    /\ inflight = {}
    /\ cmds = <<>>
    /\ escaped = FALSE
    /\ before = repo
    /\ lastOp = NoOp
    /\ info = NoInfo
    /\ calls = 0
    /\ derived = NoBranch
    /\ selectedProject = Project
    /\ resolved = NoBranch
    /\ aggregate = NoAggregate
    /\ InitAux

\* the localBranchName handed to checkoutRemoteBranch, if the handler got there
Requested(log) ==
    LET asked == SelectSeq(log, LAMBDA c : c.cmd = "checkout --track")
    IN  IF asked = <<>> THEN NoBranch ELSE asked[1].arg

\* execute(switch_changeset, branchType = remote)
Derive ==
    /\ pc = "derive"
    /\ \E env \in Envs(ops[1]) :
         LET out == execute(ops[1], selectedProject, repo, env)
         IN  /\ repo' = out.repo
             /\ results' = <<out.result>>
             /\ cmds' = Tag(out.log, 1)
             /\ escaped' = out.escapes
             /\ derived' = Requested(out.log)
    /\ lastOp' = ops[1]
    /\ pc' = "derived"
    /\ UNCHANGED <<selectedProject, resolved, aggregate>>
    /\ UNCHANGED aux
    /\ UNCHANGED <<ops, continueOnError, producer, idx, inflight, before, info,
                   calls>>

NextDerive == Derive

SpecDerive == InitDerive /\ [][NextDerive]_vars

----------------------------------------------------------------------------
\* Claim about the derived local name, checked under SpecDerive.

BeginsDouble(name) ==
    Len(name) >= 3 /\ name[1] = "changeset" /\ name[2] = "changeset"

\* C10: for every branchName given to switch_changeset with branchType =
\* remote, the local name derived carries exactly one changeset/ prefix: it
\* begins with changeset/ and never with changeset/changeset/;
\* origin/changeset/x gives changeset/x and origin/feature/x gives
\* changeset/feature/x.
C10_ExactlyOnePrefix ==
    (pc = "derived" /\ derived # NoBranch) =>
        LET branchName == lastOp.parameters.branchName
        IN  /\ Len(derived) >= 2
            /\ Head(derived) = "changeset"
            /\ ~BeginsDouble(derived)
            /\ branchName = <<"origin", "changeset", "x">> =>
                  derived = <<"changeset", "x">>
            /\ branchName = <<"origin", "feature", "x">> =>
                  derived = <<"changeset", "feature", "x">>

----------------------------------------------------------------------------
\* The fresh workflow: the user starts a changeset, possibly the same one
\* again, in repositories with every combination of main branches.

ChangesetX == <<"changeset", "x">>

\* a repository whose main branches all follow their origin/ counterpart
FreshRepo(local, current, tree) ==
    LET mains == {b \in local : Head(b) # "changeset"}
        refs == {<<"origin">> \o b : b \in mains}
    IN  [isRepo |-> TRUE,
         local |-> local,
         remote |-> refs,
         server |-> mains,
         upstream |-> [x \in local |->
                          IF x \in mains THEN <<"origin">> \o x ELSE NoBranch],
         current |-> current,
         tree |-> tree,
         stashes |-> <<>>,
         ctime |-> [b \in refs |-> 1]]

FreshRepos ==
    {FreshRepo(l, c, t) :
        l \in SUBSET {develop, main, master, trunk, ChangesetX} \ {{}},
        c \in {develop, main, master, trunk, ChangesetX},
        t \in Trees}

\* the configured default branch: none, one that may exist, one that never does
Hints == {NoBranch, trunk, release}

Fresh(changesetName) ==
    [type |-> "fresh",
     parameters |-> [NoParameters EXCEPT !.changesetName = changesetName]]

InitFresh ==
    /\ repo \in {r \in FreshRepos : r.current \in r.local} \cup {NotARepo}
    /\ selectedProject \in
          {ProjectWith("vite", h, Undefined, Undefined) : h \in Hints}
    /\ ops = <<>>
    /\ continueOnError = FALSE
    /\ results = <<>>
    /\ producer = <<>>
    /\ idx = 1
    /\ pc = "fresh"
    /\ inflight = {}
    /\ cmds = <<>>
    /\ escaped = FALSE
    /\ before = repo
    /\ lastOp = NoOp
    /\ info = NoInfo
    /\ calls = 0
    /\ derived = NoBranch
    /\ resolved = NoBranch
    /\ aggregate = NoAggregate
    /\ InitAux

\* execute({type: 'fresh', parameters: {changesetName}}, selectedProject);
\* ops and results keep the runs made so far
FreshExecute ==
    /\ pc = "fresh"
    /\ calls < MaxFresh
    /\ \E name \in {Undefined, "x"} : \E env \in Envs(Fresh(name)) :
         LET out == execute(Fresh(name), selectedProject, repo, env)
         IN  /\ repo' = out.repo
             /\ results' = Append(results, out.result)
             /\ cmds' = Tag(out.log, calls + 1)
             /\ escaped' = out.escapes
             /\ lastOp' = Fresh(name)
             /\ ops' = Append(ops, Fresh(name))
    /\ before' = repo
    /\ calls' = calls + 1
    /\ UNCHANGED <<selectedProject, resolved, aggregate>>
    /\ UNCHANGED aux
    /\ UNCHANGED <<continueOnError, producer, idx, pc, inflight, info, derived>>

NextFresh == FreshExecute

SpecFresh == InitFresh /\ [][NextFresh]_vars

----------------------------------------------------------------------------
\* Claims about the fresh workflow, checked under SpecFresh.

IsFresh(op) == op.type = "fresh"

LastResult == results[Len(results)]

\* changeset/<changesetName>, the placeholder standing in for a missing name
Target(op) ==
    <<"changeset",
      IF op.parameters.changesetName \in {Undefined, NoText}
      THEN "new-changeset" ELSE op.parameters.changesetName>>

Pulls == Issued({"pull"})

Creates == Issued({"checkout -b"})

Mutating == Issued({"stash", "checkout", "checkout -b", "pull"})

\* the configured default branch and develop, main, master
Candidates ==
    {selectedProject.configuration.defaultBranch, develop, main, master}

\* C11: fresh, run in a repository where neither the configured default
\* branch nor develop, main or master exists, returns success = false and
\* issues no checkout, no pull and no branch creation.
C11_NoMainBranchFails ==
    (IsFresh(lastOp) /\ before.isRepo /\ Candidates \cap before.local = {}) =>
        /\ ~LastResult.success
        /\ Checkouts = {}
        /\ Pulls = {}
        /\ repo.local = before.local
        /\ repo.current = before.current

C11_Witness ==
    /\ IsFresh(lastOp)
    /\ before.isRepo /\ before.local = {trunk, ChangesetX}
    /\ selectedProject.configuration.defaultBranch = release
    /\ LastResult = Result(FALSE, Msg("Main branch not found", NoBranch), NoError)

\* C12: fresh stashes if and only if the working tree is dirty: with
\* uncommitted changes it issues a stash named wip-<branch> before any branch
\* switch or pull, and on a clean tree it attempts no stash.
C12_StashIffDirty ==
    IsFresh(lastOp) =>
        /\ (before.isRepo /\ before.tree # {}) =>
              /\ Stashes # {}
              /\ \A k \in Stashes : cmds[k].arg = before.current
              /\ \A k \in Stashes : \A c \in Checkouts \cup Pulls : k < c
        /\ (before.isRepo /\ before.tree = {}) => Stashes = {}

\* C13: fresh issues its mutating commands in the order stash, checkout of
\* main, pull, create-or-switch of the changeset branch, and the first
\* command that fails is the last one issued and the result is a failure: no
\* checkout after a failed stash, no pull after a failed checkout of main,
\* no changeset branch after a failed pull.
C13_OrderedStopsAtFirstFailure ==
    IsFresh(lastOp) =>
        /\ \A k \in Stashes : \A c \in Checkouts \cup Pulls : k < c
        /\ \A c \in Checkouts : \A q \in Pulls :
              IF cmds[c].arg = Target(lastOp) THEN q < c ELSE c < q
        /\ Cardinality(Stashes) <= 1 /\ Cardinality(Pulls) <= 1
        /\ \A k \in Mutating : ~cmds[k].ok =>
              /\ k = Len(cmds)
              /\ ~LastResult.success
        /\ (\E k \in Stashes : ~cmds[k].ok) => Checkouts = {} /\ Pulls = {}
        /\ (\E k \in Checkouts : ~cmds[k].ok /\ cmds[k].arg # Target(lastOp))
              => Pulls = {}
        /\ (\E k \in Pulls : ~cmds[k].ok) =>
              /\ (\A c \in Checkouts : cmds[c].arg # Target(lastOp))
              /\ repo.local = before.local
        /\ LastResult.success => \A k \in Mutating : cmds[k].ok

C13_Witness ==
    /\ IsFresh(lastOp)
    /\ before.current = trunk /\ before.tree = {}
    /\ Cardinality(Stashes) = 1
    /\ \E c \in Checkouts : cmds[c].ok /\ cmds[c].arg = develop
    /\ \E q \in Pulls : ~cmds[q].ok
    /\ ~LastResult.success

\* C14: when fresh starts with the resolved main branch already checked out,
\* it issues no checkout of main before the pull: the only checkout it issues
\* is the final create-or-switch to the changeset branch.
C14_NoCheckoutWhenOnMain ==
    (/\ IsFresh(lastOp)
     /\ before.isRepo
     /\ before.current =
           getMainBranch(before, selectedProject.configuration.defaultBranch))
        => \A c \in Checkouts : cmds[c].arg = Target(lastOp)

\* C15: if changeset/<changesetName> already exists fresh switches to it and
\* never tries to create it, otherwise it creates it; a run whose steps all
\* succeed returns success with changeset/<changesetName> checked out, and a
\* second run with the same name resumes: it succeeds too and adds no branch.
C15_ResumeIsIdempotent ==
    IsFresh(lastOp) =>
        /\ (before.isRepo /\ Target(lastOp) \in before.local) =>
              /\ Creates = {}
              /\ repo.local = before.local
        /\ LastResult.success =>
              /\ repo.current = Target(lastOp)
              /\ repo.local = before.local \cup {Target(lastOp)}
              /\ (Target(lastOp) \notin before.local) <=> (Creates # {})
        /\ (/\ before.isRepo
            /\ Candidates \cap before.local # {}
            /\ \A k \in Mutating : cmds[k].ok) => LastResult.success
        /\ (/\ Len(results) = 2
            /\ results[1].success
            /\ ops[1] = ops[2]
            /\ \A k \in Mutating : cmds[k].ok) =>
              /\ LastResult.success
              /\ Creates = {}
              /\ repo.local = before.local

C15_Witness ==
    /\ Len(results) = 2 /\ results[1].success /\ results[2].success
    /\ ops[1] = ops[2]
    /\ before.current = ChangesetX
    /\ repo.current = ChangesetX
    /\ Creates = {}
    /\ \E c \in Checkouts : cmds[c].ok /\ cmds[c].arg = ChangesetX

----------------------------------------------------------------------------
\* Resolving the main branch: getMainBranch(wd, hint) for every combination
\* of existing branches and every kind of hint.

\* no hint, a local branch, a name that exists nowhere, a remote-tracking ref
ResolveHints == Hints \cup {OriginMain}

InitResolve ==
    /\ repo \in {r \in FreshRepos : r.current \in r.local} \cup {NotARepo}
    /\ selectedProject \in
          {ProjectWith("vite", h, Undefined, Undefined) : h \in ResolveHints}
    /\ ops = <<>>
    /\ continueOnError = FALSE
    /\ results = <<>>
    /\ producer = <<>>
    /\ idx = 1
    /\ pc = "resolve"
    /\ inflight = {}
    /\ cmds = <<>>
    /\ escaped = FALSE
    /\ before = repo
    /\ lastOp = NoOp
    /\ info = NoInfo
    /\ calls = 0
    /\ derived = NoBranch
    /\ resolved = NoBranch
    /\ aggregate = NoAggregate
    /\ InitAux

\* gitService.getMainBranch(workingDir, project.configuration.defaultBranch)
Resolve ==
    /\ pc = "resolve"
    /\ resolved' = getMainBranch(repo,
                                 selectedProject.configuration.defaultBranch)
    /\ pc' = "resolved"
    /\ UNCHANGED <<repo, ops, continueOnError, results, producer, idx,
                   inflight, cmds, escaped, before, lastOp, info, calls,
                   derived, selectedProject, aggregate>>
    /\ UNCHANGED aux

NextResolve == Resolve

SpecResolve == InitResolve /\ [][NextResolve]_vars

\* git rev-parse --verify <name> succeeds
IsRef(name) == repo.isRepo /\ name \in repo.local \cup repo.remote

\* C16: getMainBranch(dir, hint) returns the first existing ref in the order
\* hint (when given), develop, main, master, for every combination of
\* existing branches, and no branch when none of them exists.
C16_FirstExistingInOrder ==
    pc = "resolved" =>
        LET hint == selectedProject.configuration.defaultBranch
            order == (IF hint # NoBranch THEN <<hint>> ELSE <<>>)
                     \o <<develop, main, master>>
        IN  /\ (resolved = NoBranch) <=>
                  (\A i \in 1..Len(order) : ~IsRef(order[i]))
            /\ resolved # NoBranch =>
                  \E i \in 1..Len(order) :
                      /\ order[i] = resolved
                      /\ IsRef(order[i])
                      /\ \A j \in 1..(i - 1) : ~IsRef(order[j])

\* the hint does not exist, develop neither, main and master both do
C16_Witness ==
    /\ pc = "resolved"
    /\ selectedProject.configuration.defaultBranch = release
    /\ repo.isRepo /\ repo.local = {main, master, ChangesetX}
    /\ resolved = main

----------------------------------------------------------------------------
\* Toolchain operations: one operation at a time, for projects of every
\* toolchain and with every combination of explicit and configured values.

\* none configured, the four known toolchains, an unknown one
Toolchains ==
    {Undefined, "react-native", "vite", "nextjs", "react-router", "flutter"}

\* an optional string: left out, empty, or a value (the explicit one differs
\* from the configured one)
Explicit(value) == {Undefined, NoText, value}

WithParameters(type, platform, device, scriptName, command) ==
    [type |-> type,
     parameters |-> [NoParameters EXCEPT !.platform = platform,
                                         !.device = device,
                                         !.scriptName = scriptName,
                                         !.command = command]]

ToolchainOps ==
    {WithParameters(t, p, d, Undefined, Undefined) :
        t \in {"build", "run"}, p \in Explicit("android"),
        d \in Explicit("Pixel")}
    \cup {WithParameters(t, Undefined, Undefined, Undefined, Undefined) :
            t \in {"install", "test", "reset", "pod_install"}}
    \cup {WithParameters("run_script", Undefined, Undefined, n, Undefined) :
            n \in {Undefined, "lint"}}
    \cup {WithParameters("custom", Undefined, Undefined, Undefined, c) :
            c \in {Undefined, "ls"}}

InitToolchain ==
    /\ repo = Repo(TRUE, main, {}, NoBranch)
    /\ selectedProject \in
          {ProjectWith(t, main, p, d) :
              t \in Toolchains, p \in Explicit("web"), d \in Explicit("iPhone")}
    /\ ops = <<>>
    /\ continueOnError = FALSE
    /\ results = <<>>
    /\ producer = <<>>
    /\ idx = 1
    /\ pc = "toolchain"
    /\ inflight = {}
    /\ cmds = <<>>
    /\ escaped = FALSE
    /\ before = repo
    /\ lastOp = NoOp
    /\ info = NoInfo
    /\ calls = 0
    /\ derived = NoBranch
    /\ resolved = NoBranch
    /\ aggregate = NoAggregate
    /\ InitAux

\* operationController.execute(operation, selectedProject)
ToolchainExecute ==
    /\ pc = "toolchain"
    /\ calls < MaxCalls
    /\ \E op \in ToolchainOps : \E env \in Envs(op) :
         LET out == execute(op, selectedProject, repo, env)
         IN  /\ repo' = out.repo
             /\ results' = <<out.result>>
             /\ cmds' = Tag(out.log, calls + 1)
             /\ escaped' = out.escapes
             /\ lastOp' = op
    /\ before' = repo
    /\ calls' = calls + 1
    /\ UNCHANGED <<ops, continueOnError, producer, idx, pc, inflight, info,
                   derived, selectedProject, resolved, aggregate>>
    /\ UNCHANGED aux

NextToolchain == ToolchainExecute

SpecToolchain == InitToolchain /\ [][NextToolchain]_vars

----------------------------------------------------------------------------
\* Claims about toolchain operations, checked under SpecToolchain.

\* the adapter calls of the last operation
AdapterCalls == 1..Len(cmds)

\* the platform and the device a build or run call handed to the adapter
HandedPlatform(e) ==
    IF cmds[e].cmd = "build" THEN cmds[e].arg[3] ELSE cmds[e].arg[2]

HandedDevice(e) == cmds[e].arg[3]

\* C19 as stated: for run and build the platform handed to the adapter is
\* the explicit platform parameter when present, otherwise the configured
\* defaultPlatform when present, otherwise 'ios'; for run the device is the
\* explicit device parameter when present, otherwise the configured
\* defaultDevice. Present means given, whatever the value.
C19_ExplicitWhenPresent ==
    \A e \in AdapterCalls : cmds[e].cmd \in {"build", "run"} =>
        LET p == lastOp.parameters
            c == selectedProject.configuration
        IN  /\ HandedPlatform(e) =
                  IF p.platform # Undefined THEN p.platform
                  ELSE IF c.defaultPlatform # Undefined THEN c.defaultPlatform
                  ELSE "ios"
            /\ cmds[e].cmd = "run" =>
                  HandedDevice(e) =
                     IF p.device # Undefined THEN p.device ELSE c.defaultDevice

\* C19 amended: the same, a value counting as present when it is given and
\* is not the empty string: an explicit non-empty parameter is never
\* overridden by a configured default, and a non-empty configured platform
\* is never overridden by 'ios'.
C19_ExplicitWhenNonEmpty ==
    \A e \in AdapterCalls : cmds[e].cmd \in {"build", "run"} =>
        LET p == lastOp.parameters
            c == selectedProject.configuration
        IN  /\ HandedPlatform(e) =
                  IF p.platform \notin {Undefined, NoText} THEN p.platform
                  ELSE IF c.defaultPlatform \notin {Undefined, NoText}
                       THEN c.defaultPlatform
                  ELSE "ios"
            /\ cmds[e].cmd = "run" =>
                  HandedDevice(e) =
                     IF p.device \notin {Undefined, NoText}
                     THEN p.device ELSE c.defaultDevice

\* explicit values given while other defaults are configured
C19_Witness ==
    /\ lastOp.type = "run"
    /\ lastOp.parameters.platform = "android"
    /\ lastOp.parameters.device = "Pixel"
    /\ selectedProject.configuration.defaultPlatform = "web"
    /\ selectedProject.configuration.defaultDevice = "iPhone"
    /\ \E e \in AdapterCalls :
          cmds[e].cmd = "run" /\ cmds[e].arg[2] = "android"
          /\ cmds[e].arg[3] = "Pixel"

\* the adapter the configuration string selects
Selected(toolchain) ==
    CASE toolchain = "vite" -> "viteService"
      [] toolchain = "nextjs" -> "nextJSService"
      [] toolchain = "react-router" -> "reactRouterService"
      [] OTHER -> "reactNativeService"

\* C20: every toolchain-type operation (install, build, test, run, reset,
\* run_script, pod_install, custom) is handed to the adapter selected by
\* project.configuration.toolchain, a missing or unknown toolchain selecting
\* the react-native adapter; no toolchain-type operation of a project
\* configured with another toolchain reaches the react-native adapter.
C20_DelegatedToSelectedAdapter ==
    lastOp.type \in ToolchainTypes =>
        \A e \in AdapterCalls :
            /\ cmds[e].arg[1] =
                  Selected(selectedProject.configuration.toolchain)
            /\ selectedProject.configuration.toolchain
                  \in {"vite", "nextjs", "react-router"}
                  => cmds[e].arg[1] # "reactNativeService"

----------------------------------------------------------------------------
\* The git operations of the menu and the two changeset workflows, one at a
\* time, on projects with each save preference and each kind of configured
\* default branch.

GitOpsProjects ==
    {[name |-> "app",
      configuration |-> [toolchain |-> "vite", savePreference |-> sp,
                         defaultBranch |-> b, defaultPlatform |-> Undefined,
                         defaultDevice |-> Undefined]] :
        sp \in {"stash", "branch"}, b \in {NoBranch, main, ChangesetA, release}}

GitOps ==
    {Operation("clean_slate", NoBranch, NoText),
     Operation("save", NoBranch, NoText),
     Operation("update", NoBranch, NoText),
     Fresh("x"), SwitchLocalA, SwitchRemoteY}

\* a stash the user made earlier
OlderStash == StashName("older work", main)

InitGitOps ==
    /\ repo \in {[r EXCEPT !.stashes = st] :
                    r \in InitRepos, st \in {<<>>, <<OlderStash>>}}
    /\ selectedProject \in GitOpsProjects
    /\ ops = <<>>
    /\ continueOnError = FALSE
    /\ results = <<>>
    /\ producer = <<>>
    /\ idx = 1
    /\ pc = "gitops"
    /\ inflight = {}
    /\ cmds = <<>>
    /\ escaped = FALSE
    /\ before = repo
    /\ lastOp = NoOp
    /\ info = NoInfo
    /\ calls = 0
    /\ derived = NoBranch
    /\ resolved = NoBranch
    /\ aggregate = NoAggregate
    /\ InitAux

\* operationController.execute(operation, selectedProject)
GitOpExecute ==
    /\ pc = "gitops"
    /\ calls < MaxCalls
    /\ \E op \in GitOps : \E env \in Envs(op) :
         LET out == execute(op, selectedProject, repo, env)
         IN  /\ repo' = out.repo
             /\ results' = <<out.result>>
             /\ cmds' = Tag(out.log, calls + 1)
             /\ escaped' = out.escapes
             /\ lastOp' = op
    /\ before' = repo
    /\ calls' = calls + 1
    /\ UNCHANGED <<ops, continueOnError, producer, idx, pc, inflight, info,
                   derived, selectedProject, resolved, aggregate>>
    /\ UNCHANGED aux

NextGitOps == GitOpExecute

SpecGitOps == InitGitOps /\ [][NextGitOps]_vars

----------------------------------------------------------------------------
\* Claims about the git operations, checked under SpecGitOps.

\* the commands whose exit status decides the result of an operation
Deciding ==
    Issued({"stash", "checkout", "checkout -b", "checkout --track", "pull",
            "reset", "clean"})

\* the first command of the operation that exited non-zero
FirstFailed ==
    {k \in Deciding : ~cmds[k].ok /\ \A j \in Deciding : j < k => cmds[j].ok}

\* C22: whenever a command of an operation exits non-zero, the result is a
\* failure whose error field holds that command's stderr text; for
\* clean_slate both when git reset fails and when git reset succeeds and git
\* clean fails.
C22_ErrorIsFailingStderr ==
    \A k \in FirstFailed :
        /\ ~LastResult.success
        /\ LastResult.error = Stderr(cmds[k].cmd)

IsSave(op) == op.type = "save"

Saves == Issued({"stash", "checkout -b"})

IsWip(b) == \E i \in 1..Len(WipNames) : b = <<WipNames[i]>>

\* C28: save in a directory that is not a git repository fails, and in a
\* repository without uncommitted changes succeeds with 'No changes to
\* save', both without issuing a stash or a branch creation and leaving the
\* repository as it was; with uncommitted changes it issues exactly one save
\* command, a stash push under the stash preference and the creation of a
\* new wip- branch, checked out on success, under the branch preference.
C28_SavesOnlyWhenDirty ==
    IsSave(lastOp) =>
        LET preference == selectedProject.configuration.savePreference
        IN  /\ ~before.isRepo =>
                  /\ ~LastResult.success
                  /\ Deciding = {}
                  /\ repo = before
            /\ (before.isRepo /\ before.tree = {}) =>
                  /\ LastResult =
                        Result(TRUE, Msg("No changes to save", NoBranch), NoError)
                  /\ Deciding = {}
                  /\ repo = before
            /\ (before.isRepo /\ before.tree # {}) =>
                  /\ Cardinality(Saves) = 1
                  /\ Deciding = Saves
                  /\ \A k \in Saves :
                        IF preference = "stash"
                        THEN cmds[k].cmd = "stash"
                        ELSE /\ cmds[k].cmd = "checkout -b"
                             /\ IsWip(cmds[k].arg)
                             /\ cmds[k].arg \notin before.local
                             /\ cmds[k].ok => /\ LastResult.success
                                              /\ repo.current = cmds[k].arg
                                              /\ repo.tree = before.tree

\* a second save under the branch preference: a second wip- branch
C28_Witness ==
    /\ IsSave(lastOp) /\ LastResult.success
    /\ selectedProject.configuration.savePreference = "branch"
    /\ before.tree = {"modified", "untracked"}
    /\ IsWip(before.current)
    /\ IsWip(repo.current) /\ repo.current # before.current

IsUpdate(op) == op.type = "update"

\* C29: update of a project with a configured defaultBranch checks that
\* branch out before pulling: a pull is issued only after a successful
\* checkout of the default branch, a failed checkout gives success = false
\* and no pull, and after a successful update the default branch is the
\* current branch whatever was checked out before.
C29_CheckoutBeforePull ==
    (IsUpdate(lastOp) /\ selectedProject.configuration.defaultBranch # NoBranch)
        =>
        LET defaultBranch == selectedProject.configuration.defaultBranch
        IN  /\ \A q \in Pulls : \E c \in Checkouts :
                  c < q /\ cmds[c].ok /\ cmds[c].arg = defaultBranch
            /\ (\E c \in Checkouts : ~cmds[c].ok) =>
                  /\ ~LastResult.success
                  /\ Pulls = {}
                  /\ repo.current = before.current
            /\ LastResult.success =>
                  /\ repo.current = defaultBranch
                  /\ Pulls # {}

C29_Witness ==
    /\ IsUpdate(lastOp) /\ LastResult.success
    /\ selectedProject.configuration.defaultBranch = main
    /\ before.current = ChangesetA
    /\ repo.current = main
    /\ \E q \in Pulls : cmds[q].ok

IsWorkflow(op) == op.type \in {"fresh", "switch_changeset"}

IsPrefix(a, b) == Len(a) <= Len(b) /\ SubSeq(b, 1, Len(a)) = a

\* C30: fresh and switch_changeset never apply, pop or drop a stash: when
\* either returns, with success or with failure, the stashes that existed
\* and the one it created are all on the stash list, and the changes it
\* stashed are not back in the working tree; no step that fails after the
\* stash rolls it back.
C30_StashesAreKept ==
    IsWorkflow(lastOp) =>
        /\ IsPrefix(before.stashes, repo.stashes)
        /\ Len(repo.stashes) <= Len(before.stashes) + 1
        /\ Len(repo.stashes) > Len(before.stashes) =>
              /\ "modified" \in before.tree
              /\ "modified" \notin repo.tree
        /\ "untracked" \in repo.tree <=> "untracked" \in before.tree

\* a second workflow fails at its checkout after stashing, the stash of the
\* first one still there
C30_Witness ==
    /\ lastOp = SwitchRemoteY
    /\ ~LastResult.success
    /\ Len(before.stashes) = 1 /\ Len(repo.stashes) = 2
    /\ \E c \in Checkouts : ~cmds[c].ok
    /\ repo.current = before.current

----------------------------------------------------------------------------
\* Logger: a logger and the child made from it, used in any order.

Observers == {"o1", "o2"}

\* new Logger(context): private logs = [], observers = new Set(), counter = 0
NewLogger ==
    [NoLoggers EXCEPT !.arrays = <<<<>>>>, !.sets = <<{}>>,
                      !.logs["parent"] = 1, !.observers["parent"] = 1]

InitLogger ==
    /\ repo = NotARepo
    /\ selectedProject = Project
    /\ ops = <<>>
    /\ continueOnError = FALSE
    /\ results = <<>>
    /\ producer = <<>>
    /\ idx = 1
    /\ pc = "logging"
    /\ inflight = {}
    /\ cmds = <<>>
    /\ escaped = FALSE
    /\ before = repo
    /\ lastOp = NoOp
    /\ info = NoInfo
    /\ calls = 0
    /\ derived = NoBranch
    /\ resolved = NoBranch
    /\ aggregate = NoAggregate
    /\ running = {}
    /\ pending = NoPending
    /\ history = NoHistory
    /\ answer = NoAnswer
    /\ loggers = NewLogger

Exists(who) == loggers.logs[who] # 0

\* getLogs(): return [...this.logs]
getLogs(who) == loggers.arrays[loggers.logs[who]]

\* this.observers
observersOf(who) == loggers.sets[loggers.observers[who]]

\* childLogger.observers = this.observers
ChildObservers(l) == [l EXCEPT !.observers["child"] = l.observers["parent"]]

\* child(subContext): new Logger(fullContext), whose own empty array and Set
\* are dropped for the parent's
Child ==
    /\ pc = "logging"
    /\ ~Exists("child")
    /\ loggers' =
          ChildObservers(
              [loggers EXCEPT !.logs["child"] = loggers.logs["parent"],
                              !.counter["child"] = loggers.counter["parent"]])
    /\ UNCHANGED <<repo, ops, continueOnError, results, producer, idx, pc,
                   inflight, cmds, escaped, before, lastOp, info, calls,
                   derived, selectedProject, resolved, aggregate, running,
                   pending, history, answer>>

\* log(message) and the like: createEntry, then addEntry: this.logs.push(entry)
\* and this.observers.forEach(observer => observer(entry))
Log ==
    /\ pc = "logging"
    /\ calls < MaxLogs
    /\ \E who \in {"parent", "child"} :
         /\ Exists(who)
         /\ LET entry == [id |-> loggers.counter[who] + 1, context |-> who,
                          message |-> calls + 1]
            IN  loggers' =
                  [loggers EXCEPT
                     !.counter[who] = @ + 1,
                     !.arrays[loggers.logs[who]] = Append(@, entry),
                     !.delivered =
                        [o \in Observers |->
                            IF o \in observersOf(who)
                            THEN Append(loggers.delivered[o], entry)
                            ELSE loggers.delivered[o]],
                     !.logged =
                        Append(@, [entry |-> entry,
                                   to |-> loggers.subscribed])]
    /\ calls' = calls + 1
    /\ UNCHANGED <<repo, ops, continueOnError, results, producer, idx, pc,
                   inflight, cmds, escaped, before, lastOp, info, derived,
                   selectedProject, resolved, aggregate, running, pending,
                   history, answer>>

\* subscribe(observer): this.observers.add(observer)
Subscribe ==
    /\ pc = "logging"
    /\ \E who \in {"parent", "child"} : \E o \in Observers :
         /\ Exists(who)
         /\ o \notin loggers.subscribed
         /\ loggers' =
               [loggers EXCEPT !.sets[loggers.observers[who]] = @ \cup {o},
                               !.subscribed = @ \cup {o}]
    /\ UNCHANGED <<repo, ops, continueOnError, results, producer, idx, pc,
                   inflight, cmds, escaped, before, lastOp, info, calls,
                   derived, selectedProject, resolved, aggregate, running,
                   pending, history, answer>>

\* the function subscribe returned: this.observers.delete(observer), on the
\* Set of the logger the observer subscribed through
Unsubscribe ==
    /\ pc = "logging"
    /\ \E o \in loggers.subscribed :
         loggers' =
            [loggers EXCEPT
               !.sets = [i \in 1..Len(loggers.sets) |-> loggers.sets[i] \ {o}],
               !.subscribed = @ \ {o}]
    /\ UNCHANGED <<repo, ops, continueOnError, results, producer, idx, pc,
                   inflight, cmds, escaped, before, lastOp, info, calls,
                   derived, selectedProject, resolved, aggregate, running,
                   pending, history, answer>>

\* clear(): this.logs = [], a new array for the logger it is called on
Clear ==
    /\ pc = "logging"
    /\ Len(loggers.arrays) <= MaxLogs
    /\ \E who \in {"parent", "child"} :
         /\ Exists(who)
         /\ loggers' = [loggers EXCEPT !.arrays = Append(@, <<>>),
                                       !.logs[who] = Len(loggers.arrays) + 1]
    /\ UNCHANGED <<repo, ops, continueOnError, results, producer, idx, pc,
                   inflight, cmds, escaped, before, lastOp, info, calls,
                   derived, selectedProject, resolved, aggregate, running,
                   pending, history, answer>>

NextLogger == Child \/ Log \/ Subscribe \/ Unsubscribe \/ Clear

SpecLogger == InitLogger /\ [][NextLogger]_vars

\* the entries an observer should have been called with, in order
Due(o) ==
    LET mine == SelectSeq(loggers.logged, LAMBDA l : o \in l.to)
    IN  [i \in 1..Len(mine) |-> mine[i].entry]

\* C27: a child logger shares the log list and the observers of its parent:
\* after any sequence of log, subscribe, unsubscribe and clear calls on
\* either, parent.getLogs() equals child.getLogs(), and every entry logged
\* through either was delivered exactly once to every observer subscribed
\* through either at that time.
C27_ChildSharesLogsAndObservers ==
    Exists("child") =>
        /\ getLogs("parent") = getLogs("child")
        /\ \A o \in Observers : loggers.delivered[o] = Due(o)

----------------------------------------------------------------------------
\* Listing the unsynced remote branches: every combination of commit times
\* (0: unknown) and every order in which git may list the remote refs.

RefTimes == {0, 3, 5}

\* every order of the remote refs of the model
Listings ==
    {l \in [1..Len(RefOrder) -> {RefOrder[i] : i \in 1..Len(RefOrder)}] :
        \A i, j \in 1..Len(RefOrder) : l[i] = l[j] => i = j}

InitListing ==
    /\ repo \in {[Repo(TRUE, main, {}, NoBranch) EXCEPT !.ctime = t] :
                    t \in [{RefOrder[i] : i \in 1..Len(RefOrder)} -> RefTimes]}
    /\ selectedProject = Project
    /\ ops = <<>>
    /\ continueOnError = FALSE
    /\ results = <<>>
    /\ producer = <<>>
    /\ idx = 1
    /\ pc = "listing"
    /\ inflight = {}
    /\ cmds = <<>>
    /\ escaped = FALSE
    /\ before = repo
    /\ lastOp = NoOp
    /\ info = NoInfo
    /\ calls = 0
    /\ derived = NoBranch
    /\ resolved = NoBranch
    /\ aggregate = NoAggregate
    /\ InitAux

\* gitService.getUnsyncedRemoteBranches(workingDirectory, true)
ListUnsynced ==
    /\ pc = "listing"
    /\ \E listing \in Listings :
         LET unsynced == getUnsyncedRemoteBranches(repo, listing, TRUE, NoFault)
         IN  /\ repo' = unsynced.repo
             /\ answer' = Answer("getUnsyncedRemoteBranches", NoFault, listing,
                                 unsynced.value)
    /\ pc' = "listed"
    /\ UNCHANGED <<ops, continueOnError, results, producer, idx, inflight,
                   cmds, escaped, before, lastOp, info, calls, derived,
                   selectedProject, resolved, aggregate, running, pending,
                   history, loggers>>

NextListing == ListUnsynced

SpecListing == InitListing /\ [][NextListing]_vars

\* the position of a branch name in ascending order of names
NameRank(b) == CHOOSE i \in 1..Len(RefOrder) : RefOrder[i] = b

\* the commit time of a listed branch, 0 when unknown
Recency(item) == IF item.date.known THEN item.date.ms ELSE 0

\* C24: the remote branches returned are sorted by last commit time, most
\* recent first, and two branches of equal commit time, two of unknown time
\* included, come in ascending order of branch name, in whatever order git
\* listed them.
C24_ByRecencyThenName ==
    pc = "listed" =>
        \A i, j \in 1..Len(answer.value) : i < j =>
            \/ Recency(answer.value[i]) > Recency(answer.value[j])
            \/ /\ Recency(answer.value[i]) = Recency(answer.value[j])
               /\ NameRank(answer.value[i].branch)
                     < NameRank(answer.value[j].branch)

----------------------------------------------------------------------------
\* The inspection queries of the git service, each asked of a repository
\* with any small commit graph, with at most one of its git processes
\* failing: exiting non-zero, or not starting at all.

RECURSIVE GraphsOf(_)
GraphsOf(n) ==
    IF n = 0 THEN {<<>>}
    ELSE {Append(g, ps) :
             g \in GraphsOf(n - 1),
             ps \in {x \in SUBSET (1..(n - 1)) : Cardinality(x) <= 2}}

\* every graph of MaxCommits commits, HEAD at any of them, main at any of
\* them or missing
Histories ==
    {[parents |-> g, head |-> hd, mainAt |-> m] :
        g \in GraphsOf(MaxCommits), hd \in 1..MaxCommits, m \in 0..MaxCommits}

OneFault(commands) ==
    {NoFault} \cup {Fault({c}, {}) : c \in commands}
              \cup {Fault({}, {c}) : c \in commands}

InitInspect ==
    /\ repo \in {Repo(TRUE, ChangesetA, {"modified", "untracked"}, NoBranch),
                  NotARepo}
    /\ history \in Histories
    /\ selectedProject = Project
    /\ ops = <<>>
    /\ continueOnError = FALSE
    /\ results = <<>>
    /\ producer = <<>>
    /\ idx = 1
    /\ pc = "inspect"
    /\ inflight = {}
    /\ cmds = <<>>
    /\ escaped = FALSE
    /\ before = repo
    /\ lastOp = NoOp
    /\ info = NoInfo
    /\ calls = 0
    /\ derived = NoBranch
    /\ resolved = NoBranch
    /\ aggregate = NoAggregate
    /\ running = {}
    /\ pending = NoPending
    /\ answer = NoAnswer
    /\ loggers = NoLoggers

\* a query that leaves the repository as it is
Asked(query, env, value) ==
    /\ pc = "inspect"
    /\ answer' = Answer(query, env, NoText, value)
    /\ pc' = "answered"
    /\ UNCHANGED <<repo, ops, continueOnError, results, producer, idx,
                   inflight, cmds, escaped, before, lastOp, info, calls,
                   derived, selectedProject, resolved, aggregate, running,
                   pending, history, loggers>>

AskIsGitRepository ==
    \E env \in OneFault({"rev-parse"}) :
        Asked("isGitRepository", env, isGitRepositoryQuery(repo, env))

AskCurrentBranch ==
    \E env \in OneFault({"branch --show-current"}) :
        Asked("getCurrentBranch", env, getCurrentBranchQuery(repo, env))

AskHasUncommittedChanges ==
    \E env \in OneFault({"status"}) :
        Asked("hasUncommittedChanges", env,
              hasUncommittedChangesQuery(repo, env))

AskChangeset ==
    \E env \in OneFault({"status"}) :
        Asked("getChangeset", env, getChangeset(repo, env))

AskMainBranch ==
    \E env \in OneFault({"rev-parse --verify"}) :
        Asked("getMainBranch", env,
              getMainBranchQuery(repo,
                                 selectedProject.configuration.defaultBranch,
                                 env))

AskBranchDivergence ==
    \E env \in OneFault({"rev-list"}) :
        Asked("getBranchDivergence", env,
              getBranchDivergence(repo, history, env))

AskLastSyncFromMain ==
    \E env \in OneFault({"log range", "log main", "merge-base", "log base"}) :
        \E value \in getLastSyncFromMain(repo, history, env) :
            Asked("getLastSyncFromMain", env, value)

\* the one query that changes the repository: it refreshes the remote refs
AskUnsyncedRemoteBranches ==
    /\ pc = "inspect"
    /\ \E env \in OneFault({"fetch", "branch -r", "branch", "log"}) :
         \E includeDate \in BOOLEAN :
            LET unsynced ==
                    getUnsyncedRemoteBranches(repo, RefOrder, includeDate, env)
            IN  /\ repo' = unsynced.repo
                /\ answer' = Answer("getUnsyncedRemoteBranches", env,
                                    includeDate, unsynced.value)
    /\ pc' = "answered"
    /\ UNCHANGED <<ops, continueOnError, results, producer, idx,
                   inflight, cmds, escaped, before, lastOp, info, calls,
                   derived, selectedProject, resolved, aggregate, running,
                   pending, history, loggers>>

NextInspect ==
    \/ AskIsGitRepository
    \/ AskCurrentBranch
    \/ AskHasUncommittedChanges
    \/ AskChangeset
    \/ AskMainBranch
    \/ AskBranchDivergence
    \/ AskLastSyncFromMain
    \/ AskUnsyncedRemoteBranches

SpecInspect == InitInspect /\ [][NextInspect]_vars

----------------------------------------------------------------------------
\* Claims about the inspection queries, checked under SpecInspect.

\* the query ran in a repository that has the main branch, no process failing
Answered(query) ==
    /\ answer.query = query
    /\ answer.env = NoFault
    /\ repo.isRepo
    /\ history.mainAt # 0

\* the Date of a commit's time
DateOf(c) == [known |-> TRUE, ms |-> CommitTime(c) * 1000]

\* C23: getLastSyncFromMain returns the commit time of the merge-base of HEAD
\* and main in every commit graph where HEAD differs from main, HEAD
\* strictly behind main included, and main's latest commit time when HEAD
\* equals main.
C23_MergeBaseTime ==
    Answered("getLastSyncFromMain") =>
        IF history.head = history.mainAt
        THEN answer.value = DateOf(history.mainAt)
        ELSE MergeBases(history, history.mainAt, history.head) # {} =>
                \E b \in MergeBases(history, history.mainAt, history.head) :
                    answer.value = DateOf(b)

\* the git processes that failed while the query ran
Faults == answer.env.exit \cup answer.env.spawn

\* the query found its git process failing
Degraded(query, commands) ==
    /\ answer.query = query
    /\ (Faults \cap commands # {} \/ ~repo.isRepo)

\* C25: every inspection query returns its empty value when its git process
\* exits non-zero or cannot be started; a failed git fetch --prune inside
\* getUnsyncedRemoteBranches does not fail the query, which lists the remote
\* refs known locally.
C25_FailureGivesEmptyValue ==
    /\ Degraded("isGitRepository", {"rev-parse"}) => answer.value = FALSE
    /\ Degraded("getCurrentBranch", {"branch --show-current"}) =>
          answer.value = NoBranch
    /\ Degraded("hasUncommittedChanges", {"status"}) => answer.value = FALSE
    /\ Degraded("getChangeset", {"status"}) => answer.value = <<>>
    /\ Degraded("getMainBranch", {"rev-parse --verify"}) =>
          answer.value = NoBranch
    /\ Degraded("getBranchDivergence", {"rev-list"}) =>
          answer.value = [ahead |-> 0, behind |-> 0]
    /\ Degraded("getLastSyncFromMain", {"log range"}) => answer.value = NoDate
    /\ Degraded("getUnsyncedRemoteBranches", {"branch -r", "branch"}) =>
          answer.value = <<>>
    /\ (answer.query = "getUnsyncedRemoteBranches" /\ repo.isRepo
          /\ answer.env = Fault({"fetch"}, {})) =>
          {IF answer.input THEN answer.value[i].branch ELSE answer.value[i] :
              i \in 1..Len(answer.value)}
          = {b \in repo.remote :
                b # OriginHead /\ StripOrigin(b) \notin repo.local}

\* C26: getBranchDivergence returns as ahead the number of commits reachable
\* from HEAD and not from main and as behind the number reachable from main
\* and not from HEAD; neither is negative, and both are 0 when HEAD is main.
C26_AheadAndBehind ==
    answer.query = "getBranchDivergence" =>
        /\ answer.value.ahead >= 0
        /\ answer.value.behind >= 0
        /\ Answered("getBranchDivergence") =>
              /\ answer.value.ahead =
                    Cardinality({c \in 1..MaxCommits :
                        /\ c \in Reachable(history, history.head)
                        /\ c \notin Reachable(history, history.mainAt)})
              /\ answer.value.behind =
                    Cardinality({c \in 1..MaxCommits :
                        /\ c \in Reachable(history, history.mainAt)
                        /\ c \notin Reachable(history, history.head)})
              /\ history.head = history.mainAt =>
                    answer.value = [ahead |-> 0, behind |-> 0]

\* HEAD two commits ahead of main and one behind
C26_Witness ==
    /\ Answered("getBranchDivergence")
    /\ answer.value = [ahead |-> 2, behind |-> 1]

----------------------------------------------------------------------------
\* The git processes of the interactive view. The controller and the git
\* service are shared singletons and every method of theirs is async: a call
\* runs until its next await of Deno.Command.output(), and other calls run
\* while the process is alive. running holds the git processes alive in the
\* project directory, pending the commands each call chain has yet to start.

\* the git commands that write to the working tree or to .git
MutatingGit ==
    {"stash", "checkout", "checkout -b", "checkout --track", "pull", "reset",
     "clean", "fetch --prune"}

\* an awaited command: one process, the next one started after its exit
Batches(log) == [k \in 1..Len(log) |-> {[cmd |-> log[k].cmd, n |-> 1]}]

\* GitService.getUnsyncedRemoteBranches: the processes it starts, the
\* git log of the branches together under Promise.all
UnsyncedCommands(r, env) ==
    IF Rejects("fetch", env) THEN <<>>
    ELSE
    <<{[cmd |-> "fetch --prune", n |-> 1]}>> \o
    (IF Rejects("branch -r", env) THEN <<>>
     ELSE
     <<{[cmd |-> "branch -r", n |-> 1]}>> \o
     (IF ~Exits0("branch -r", env, r.isRepo) \/ Rejects("branch", env)
      THEN <<>>
      ELSE
      <<{[cmd |-> "branch", n |-> 1]}>> \o
      (LET unsynced == getUnsyncedRemoteBranches(r, RefOrder, TRUE, env).value
       IN  IF ~Exits0("branch", env, TRUE) \/ unsynced = <<>> THEN <<>>
           ELSE <<{[cmd |-> "log", n |-> i] : i \in 1..Len(unsynced)}>>)))

Alive(t) == {p \in running : p.task = t}

InitConcurrent ==
    /\ repo \in {Repo(TRUE, main, {}, NoBranch),
                Repo(TRUE, ChangesetA, {"modified"}, OriginFeatureY)}
    /\ selectedProject = Project
    /\ ops = <<>>
    /\ continueOnError = FALSE
    /\ results = <<>>
    /\ producer = <<>>
    /\ idx = 1
    /\ pc = "menu"
    /\ inflight = {}
    /\ cmds = <<>>
    /\ escaped = FALSE
    /\ before = repo
    /\ lastOp = NoOp
    /\ info = NoInfo
    /\ calls = 0
    /\ derived = NoBranch
    /\ resolved = NoBranch
    /\ aggregate = NoAggregate
    /\ InitAux

\* handleOperationSelect: setState('executing'), then
\* await operationController.execute(operation, selectedProject)
SelectOperation ==
    /\ pc = "menu"
    /\ calls < MaxCalls
    /\ \E op \in GitOps : \E env \in Envs(op) :
         /\ pending' =
               [pending EXCEPT ![0] =
                   [active |-> TRUE, op |-> op, env |-> env, fault |-> NoFault,
                    todo |-> Batches(execute(op, selectedProject, repo,
                                             env).log)]]
         /\ lastOp' = op
    /\ before' = repo
    /\ calls' = calls + 1
    /\ pc' = "executing"
    /\ UNCHANGED <<repo, ops, continueOnError, results, producer, idx,
                   inflight, cmds, escaped, info, derived, selectedProject,
                   resolved, aggregate>>
    /\ UNCHANGED <<running, history, answer, loggers>>

\* new Deno.Command('git', ...).output(): a call chain whose last processes
\* have exited starts its next ones
Spawn ==
    /\ \E t \in Tasks :
         /\ pending[t].active
         /\ pending[t].todo # <<>>
         /\ Alive(t) = {}
         /\ running' = running \cup
               {[task |-> t, cmd |-> c.cmd, n |-> c.n] :
                   c \in Head(pending[t].todo)}
         /\ pending' = [pending EXCEPT ![t].todo = Tail(@)]
    /\ UNCHANGED <<repo, ops, continueOnError, results, producer, idx, pc,
                   inflight, cmds, escaped, before, lastOp, info, calls,
                   derived, selectedProject, resolved, aggregate>>
    /\ UNCHANGED <<history, answer, loggers>>

\* a git process exits
Exit ==
    /\ \E p \in running : running' = running \ {p}
    /\ UNCHANGED <<repo, ops, continueOnError, results, producer, idx, pc,
                   inflight, cmds, escaped, before, lastOp, info, calls,
                   derived, selectedProject, resolved, aggregate>>
    /\ UNCHANGED <<pending, history, answer, loggers>>

\* the awaited execute() settles: setResult(result), setState('result'); the
\* repository is as the operation leaves the one it worked on
OperationSettles ==
    /\ pc = "executing"
    /\ pending[0].todo = <<>>
    /\ Alive(0) = {}
    /\ LET out == execute(pending[0].op, selectedProject, repo, pending[0].env)
       IN  /\ repo' = out.repo
           /\ results' = <<out.result>>
           /\ escaped' = out.escapes
    /\ pending' = [pending EXCEPT ![0] = Idle]
    /\ pc' = "result"
    /\ UNCHANGED <<ops, continueOnError, producer, idx, inflight, cmds,
                   before, lastOp, info, calls, derived, selectedProject,
                   resolved, aggregate>>
    /\ UNCHANGED <<running, history, answer, loggers>>

\* 'b' on the result screen: loadProjectGitInfo(selectedProject) is called
\* without await and setState('operation-selection') follows at once
Back ==
    /\ pc = "result"
    /\ \E env \in {NoFault, Fault({"fetch"}, {})} :
         pending' =
             [pending EXCEPT ![calls] =
                 [active |-> TRUE, op |-> NoOp, env |-> Env({}, "ok"),
                  fault |-> env, todo |-> UnsyncedCommands(repo, env)]]
    /\ pc' = "menu"
    /\ UNCHANGED <<repo, ops, continueOnError, results, producer, idx,
                   inflight, cmds, escaped, before, lastOp, info, calls,
                   derived, selectedProject, resolved, aggregate>>
    /\ UNCHANGED <<running, history, answer, loggers>>

\* the promise of loadProjectGitInfo settles: the project information shown
\* is replaced
RefreshSettles ==
    /\ \E t \in Tasks \ {0} :
         /\ pending[t].active
         /\ pending[t].todo = <<>>
         /\ Alive(t) = {}
         /\ LET loaded == loadProjectGitInfo(repo, pending[t].fault)
            IN  /\ repo' = loaded.repo
                /\ info' = loaded.info
         /\ pending' = [pending EXCEPT ![t] = Idle]
    /\ UNCHANGED <<ops, continueOnError, results, producer, idx, pc,
                   inflight, cmds, escaped, before, lastOp, calls, derived,
                   selectedProject, resolved, aggregate>>
    /\ UNCHANGED <<running, history, answer, loggers>>

NextConcurrent ==
    \/ SelectOperation
    \/ Spawn
    \/ Exit
    \/ OperationSettles
    \/ Back
    \/ RefreshSettles

SpecConcurrent == InitConcurrent /\ [][NextConcurrent]_vars

----------------------------------------------------------------------------
\* Claims about concurrency, checked under SpecConcurrent.

MutatingAlive == {p \in running : p.cmd \in MutatingGit}

\* C21: at no time are two mutating git commands (stash, checkout,
\* checkout -b, pull, reset, clean, fetch --prune) running concurrently in
\* the project directory, whatever the interleaving of the execute calls and
\* the repository inspections.
C21_OneMutatingCommandAtATime == Cardinality(MutatingAlive) <= 1

\* the commands of one call chain never overlap: each is awaited
AwaitedWithinACall ==
    \A t \in Tasks : Cardinality(Alive(t) \cap MutatingAlive) <= 1

\* inspections overlap operations only through the refresh of the remote refs
OnlyTheFetchOverlaps ==
    \A p, q \in MutatingAlive :
        p.task # q.task => "fetch --prune" \in {p.cmd, q.cmd}

====
